---- MODULE Spec2Model ----
(***************************************************************************)
(* Model of the live-streaming gateway: the stream registry and token      *)
(* service of src/auth.js, the segment cache of the HLS proxy              *)
(* (src/unnamed/part_002), the URL cipher of src/auth.js and the manifest  *)
(* and key proxies of src/unnamed/part_002.                                *)
(*                                                                         *)
(* Several specifications share the module:                                *)
(*   Spec        registry: generateToken, validateToken, registerViewer,   *)
(*               removeViewer, stopStream, cleanupExpiredStreams, clock    *)
(*   CacheSpec   segment cache: proxySegment and cacheSegment              *)
(*   CipherSpec  encryptUrl / decryptUrl over concrete hex strings         *)
(*   ManifestSpec  proxyManifest and rewriteManifestUrls over playlists    *)
(*   ManifestLiveSpec  ManifestSpec with weak fairness of its events       *)
(*   KeySpec     proxyKey                                                  *)
(*   StreamSpec  registry with the viewers of one stream                   *)
(*   RelaySpec   segment proxy with two keys, without the clock            *)
(*   RelayLiveSpec  RelaySpec with weak fairness of its events             *)
(*   GatewaySpec registry and the three proxy endpoints of one process     *)
(*   AccessSpec  registry against the requests the endpoints answer        *)
(*   RestartSpec registry and segment proxy of one process, restarted      *)
(* Each specification leaves the variables of the others unchanged.        *)
(***************************************************************************)
EXTENDS Integers, Sequences, FiniteSets, TLC

(***************************************************************************)
(* Bounds and scales.  Time is counted in clock units ("milliseconds");    *)
(* MsPerSec and SecPerMin are the 1000 and 60 of the code scaled down so   *)
(* that the floor of Date.now()/1000 and a token's expiry are reachable.   *)
(* defaultExpiryMinutes and maxConcurrentViewers are values of token.json. *)
(***************************************************************************)
MsPerSec == 2
SecPerMin == 1
MaxNow == 3
MaxUuid == 3
\* CACHE_MAX_SIZE (50 MB) and the 30000 ms freshness window, scaled down
CACHE_MAX_SIZE == 2
SEGMENT_TTL == 2
MaxChunks == 1
MaxRequests == 2
defaultExpiryMinutes == 2
maxConcurrentViewers == 1
\* the longest URL handed to encryptUrl, in characters
MaxUrlLen == 2
\* crypto.randomBytes(16): the nonce length in bytes
IV_LENGTH == 16
\* the length in bytes of the tag cipher.getAuthTag() returns for aes-256-gcm
TAG_LENGTH == 16
\* the longest origin playlist, in lines
MaxLines == 2

StreamIds == {"s1", "s2"}
SessionIds == {"v1", "v2"}
\* payload.expiryMinutes: 0 stands for an absent (falsy) value
ExpiryInputs == {0, 1}
\* the ciphertexts segment requests carry: "bad" is one decryptUrl rejects
CacheKeys == {"k1", "k2", "bad"}
\* the byte lengths of the chunks the origin sends
ChunkSizes == {1, 3}
\* the status codes of the origin's answer to a segment request
SegmentStatuses == {200, 302, 404}
\* the characters of a URL, as code points: "/", U+00E9 and U+20AC, which
\* UTF-8 encodes in one, two and three bytes
UrlChars == {47, 233, 8364}
\* the first byte of the nonces crypto.randomBytes draws
NonceSeeds == {0, 94, 255}

VARIABLES
    now,             \* Date.now(), in clock units
    activeStreams,   \* Map streamId -> stream record
    viewerSessions,  \* Map sessionId -> session
    nextUuid,        \* uuidv4(): the next fresh value
    tokens,          \* every token issued so far (held by clients)
    stoppedJtis,     \* history: jti of tokens issued for a stream before a successful stop of it
    segmentCache,    \* Map key -> entry, as the sequence of its entries in insertion order
    currentCacheSize,\* the running byte counter of the segment cache
    requests,        \* segment requests in flight: request id -> its state
    segmentResponse, \* the response proxySegment sent last: status, headers, origin of the bytes
    encryptedUrl,    \* the string a client hands to decryptUrl, as its characters
    plainUrl,        \* the URL the last encryptUrl call was given, as code points
    handling,        \* history: what happened to the ciphertext since encryptUrl returned it
    revealed,        \* the outcome of decryptUrl on encryptedUrl: <<>> before the call
    manifestRequest, \* the manifest request being served: its position, URLs and response
    keyRequest,      \* the key request being served: its position, URLs and response
    lastRestart      \* history: what the process held when it was last restarted

regVars == <<now, activeStreams, viewerSessions, nextUuid, tokens, stoppedJtis>>

cacheVars == <<segmentCache, currentCacheSize, requests, segmentResponse>>

cipherVars == <<encryptedUrl, plainUrl, handling, revealed>>

\* what the registry calls leave alone
nonRegVars == <<cacheVars, cipherVars, manifestRequest, keyRequest, lastRestart>>

\* what the segment proxy leaves alone (the clock aside)
nonCacheVars == <<activeStreams, viewerSessions, nextUuid, tokens, stoppedJtis, cipherVars,
                  manifestRequest, keyRequest, lastRestart>>

\* what the cipher calls leave alone
nonCipherVars == <<regVars, cacheVars, manifestRequest, keyRequest, lastRestart>>

\* what the manifest proxy leaves alone
nonManifestVars == <<regVars, cacheVars, cipherVars, keyRequest, lastRestart>>

\* what the key proxy leaves alone
nonKeyVars == <<regVars, cacheVars, cipherVars, manifestRequest, lastRestart>>

vars == <<regVars, cacheVars, cipherVars, manifestRequest, keyRequest, lastRestart>>

----------------------------------------------------------------------------
(* Map helpers: a JavaScript Map is a function with a finite domain.       *)
MapSet(m, k, v) == [x \in (DOMAIN m) \cup {k} |-> IF x = k THEN v ELSE m[x]]

MapDelete(m, ks) == [x \in (DOMAIN m) \ ks |-> m[x]]

EmptyMap == [x \in {} |-> 0]

Max(a, b) == IF a >= b THEN a ELSE b

----------------------------------------------------------------------------
(* Token service                                                           *)

\* Math.floor(Date.now() / 1000)
NowSec(t) == t \div MsPerSec

\* payload.expiryMinutes || tokenConfig.stream.defaultExpiryMinutes
EffectiveExpiry(m) == IF m = 0 THEN defaultExpiryMinutes ELSE m

\* jwt.sign: iat from the payload, exp = iat + expiresIn ("<m>m"), jti option
SignToken(s, m, jti, t) ==
    [streamId |-> s, jti |-> jti, iat |-> NowSec(t),
     exp |-> NowSec(t) + EffectiveExpiry(m) * SecPerMin]

\* a mutant: the record's lifetime is taken in seconds where the clock counts
\* milliseconds
NewStreamDataShort(s, m, jti, t) ==
    [streamId |-> s,
     expiresAt |-> t + EffectiveExpiry(m) * SecPerMin,
     viewerCount |-> 0,
     maxViewers |-> maxConcurrentViewers,
     isActive |-> TRUE,
     tokenJti |-> jti]

\* streamData of generateToken
NewStreamData(s, m, jti, t) ==
    [streamId |-> s,
     expiresAt |-> t + EffectiveExpiry(m) * SecPerMin * MsPerSec,
     viewerCount |-> 0,
     maxViewers |-> maxConcurrentViewers,
     isActive |-> TRUE,
     tokenJti |-> jti]

\* a mutant: an existing record is kept and only its generation id refreshed
GenerateStreamDataKeep(streams, s, m, jti, t) ==
    IF s \in DOMAIN streams
    THEN [streams[s] EXCEPT !.tokenJti = jti]
    ELSE NewStreamData(s, m, jti, t)

\* a mutant: a stream that is issued again keeps its first generation id
GenerateStreamDataFirstJti(streams, s, m, jti, t) ==
    IF s \in DOMAIN streams
    THEN [NewStreamData(s, m, jti, t) EXCEPT !.tokenJti = streams[s].tokenJti]
    ELSE NewStreamData(s, m, jti, t)

\* the record generateToken stores under streamId
GenerateStreamData(streams, s, m, jti, t) == NewStreamData(s, m, jti, t)

\* the token generateToken returns: jwtid is the next uuidv4()
IssuedToken(s, m) == SignToken(s, m, nextUuid, now)

GenerateToken(s, m) ==
    /\ nextUuid <= MaxUuid
    /\ activeStreams' = MapSet(activeStreams, s,
                               GenerateStreamData(activeStreams, s, m, nextUuid, now))
    /\ tokens' = tokens \cup {IssuedToken(s, m)}
    /\ nextUuid' = nextUuid + 1
    /\ UNCHANGED <<now, viewerSessions, stoppedJtis>>
    /\ UNCHANGED nonRegVars

\* jwt.verify: signature first, then the exp claim against the clock
JwtVerify(tok, sigOk, t) ==
    IF ~sigOk THEN "invalid signature"
    ELSE IF NowSec(t) >= tok.exp THEN "jwt expired"
    ELSE "ok"

\* a mutant: the generation id is compared before the active flag
validateTokenRevokedFirst(tok, sigOk, streams, t) ==
    LET v == JwtVerify(tok, sigOk, t) IN
    IF v # "ok" THEN [valid |-> FALSE, error |-> v]
    ELSE IF tok.streamId \notin DOMAIN streams
         THEN [valid |-> FALSE, error |-> "Stream not found or expired"]
    ELSE IF tok.jti # streams[tok.streamId].tokenJti
         THEN [valid |-> FALSE, error |-> "Token has been revoked"]
    ELSE IF ~streams[tok.streamId].isActive
         THEN [valid |-> FALSE, error |-> "Stream has been stopped"]
    ELSE [valid |-> TRUE, error |-> ""]

\* a mutant: the record is looked up before the token's signature and expiry
validateTokenLookupFirst(tok, sigOk, streams, t) ==
    IF tok.streamId \notin DOMAIN streams
    THEN [valid |-> FALSE, error |-> "Stream not found or expired"]
    ELSE IF ~streams[tok.streamId].isActive
         THEN [valid |-> FALSE, error |-> "Stream has been stopped"]
    ELSE IF tok.jti # streams[tok.streamId].tokenJti
         THEN [valid |-> FALSE, error |-> "Token has been revoked"]
    ELSE IF JwtVerify(tok, sigOk, t) # "ok"
         THEN [valid |-> FALSE, error |-> JwtVerify(tok, sigOk, t)]
    ELSE [valid |-> TRUE, error |-> ""]

validateToken(tok, sigOk, streams, t) ==
    LET v == JwtVerify(tok, sigOk, t) IN
    IF v # "ok" THEN [valid |-> FALSE, error |-> v]
    ELSE IF tok.streamId \notin DOMAIN streams
         THEN [valid |-> FALSE, error |-> "Stream not found or expired"]
    ELSE IF ~streams[tok.streamId].isActive
         THEN [valid |-> FALSE, error |-> "Stream has been stopped"]
    ELSE IF tok.jti # streams[tok.streamId].tokenJti
         THEN [valid |-> FALSE, error |-> "Token has been revoked"]
    ELSE [valid |-> TRUE, error |-> ""]

\* validateToken on a token a client holds, genuine or with a forged signature:
\* it reads the registry and writes nothing
ValidateToken(tok, sigOk) ==
    /\ validateToken(tok, sigOk, activeStreams, now).valid \in BOOLEAN
    /\ UNCHANGED regVars
    /\ UNCHANGED nonRegVars

----------------------------------------------------------------------------
(* Stream registry                                                         *)

\* a mutant: the capacity test is off by one
AtCapacityOffByOne(rec) == rec.viewerCount > rec.maxViewers

\* streamData.viewerCount >= streamData.maxViewers
AtCapacity(rec) == rec.viewerCount >= rec.maxViewers

\* a mutant: a stopped stream admits no viewer
registerViewerResultActiveOnly(streams, s) ==
    IF s \notin DOMAIN streams THEN "Stream not found"
    ELSE IF ~streams[s].isActive THEN "Stream has been stopped"
    ELSE IF AtCapacity(streams[s]) THEN "Maximum viewer limit reached"
    ELSE "ok"

\* what registerViewer throws, or "ok" when it returns the session
registerViewerResult(streams, s) ==
    IF s \notin DOMAIN streams THEN "Stream not found"
    ELSE IF AtCapacity(streams[s]) THEN "Maximum viewer limit reached"
    ELSE "ok"

RegisterViewer(s, sid) ==
    /\ IF registerViewerResult(activeStreams, s) = "ok"
       THEN /\ activeStreams' = [activeStreams EXCEPT ![s].viewerCount = @ + 1]
            /\ viewerSessions' = MapSet(viewerSessions, sid,
                                        [sessionId |-> sid, streamId |-> s])
       ELSE UNCHANGED <<activeStreams, viewerSessions>>
    /\ UNCHANGED <<now, nextUuid, tokens, stoppedJtis>>
    /\ UNCHANGED nonRegVars

\* a mutant: the decrement is not floored
DecrementViewerCountUnfloored(n) == n - 1

\* Math.max(0, streamData.viewerCount - 1)
DecrementViewerCount(n) == Max(0, n - 1)

\* a mutant: a stream that loses its last viewer is dropped from the registry
StreamsAfterRemoveDropIdle(streams, s) ==
    IF streams[s].viewerCount <= 1
    THEN MapDelete(streams, {s})
    ELSE [streams EXCEPT ![s].viewerCount = DecrementViewerCount(@)]

\* a mutant: every stream loses a viewer
StreamsAfterRemoveEvery(streams, s) ==
    [x \in DOMAIN streams |->
        [streams[x] EXCEPT !.viewerCount = DecrementViewerCount(@)]]

\* the registry after removeViewer of a session of stream s: the count of s is
\* lowered and the record stored back
StreamsAfterRemove(streams, s) ==
    [streams EXCEPT ![s].viewerCount = DecrementViewerCount(@)]

\* the two Maps after removeViewer(sessionId): nothing happens for an unknown
\* session, and the count is left alone when the session's stream has no record
removeViewer(streams, sessions, sid) ==
    IF sid \in DOMAIN sessions
    THEN LET s == sessions[sid].streamId IN
         [streams |-> IF s \in DOMAIN streams THEN StreamsAfterRemove(streams, s)
                                               ELSE streams,
          sessions |-> MapDelete(sessions, {sid})]
    ELSE [streams |-> streams, sessions |-> sessions]

RemoveViewer(sid) ==
    /\ activeStreams' = removeViewer(activeStreams, viewerSessions, sid).streams
    /\ viewerSessions' = removeViewer(activeStreams, viewerSessions, sid).sessions
    /\ UNCHANGED <<now, nextUuid, tokens, stoppedJtis>>
    /\ UNCHANGED nonRegVars

\* a mutant: the record is left as it was
StoppedRecordUntouched(rec, jti) == rec

\* a mutant: the generation id is not rotated
RotatedJtiSame(rec, jti) == rec.tokenJti

\* the generation id stopStream writes: a fresh uuidv4()
RotatedJti(rec, jti) == jti

\* a mutant: a stop flips the active flag instead of clearing it
StoppedRecordToggle(rec, jti) ==
    [rec EXCEPT !.isActive = ~rec.isActive, !.tokenJti = RotatedJti(rec, jti)]

\* streamData after stopStream: isActive = false, tokenJti = uuidv4()
StoppedRecord(rec, jti) ==
    [rec EXCEPT !.isActive = FALSE, !.tokenJti = RotatedJti(rec, jti)]

\* a mutant: an unknown stream id is answered like a known one
stopStreamResultAlwaysOk(streams, s) ==
    [success |-> TRUE, message |-> "Stream stopped successfully"]

\* what stopStream returns
stopStreamResult(streams, s) ==
    IF s \in DOMAIN streams
    THEN [success |-> TRUE, message |-> "Stream stopped successfully"]
    ELSE [success |-> FALSE, message |-> "Stream not found"]

StopStream(s) ==
    /\ IF stopStreamResult(activeStreams, s).success
       THEN /\ nextUuid <= MaxUuid
            /\ activeStreams' = [activeStreams EXCEPT ![s] = StoppedRecord(@, nextUuid)]
            /\ nextUuid' = nextUuid + 1
            /\ stoppedJtis' = stoppedJtis \cup {t.jti : t \in {u \in tokens : u.streamId = s}}
       ELSE UNCHANGED <<activeStreams, nextUuid, stoppedJtis>>
    /\ UNCHANGED <<now, viewerSessions, tokens>>
    /\ UNCHANGED nonRegVars

\* what getStreamStats returns: the record's fields, or null (here <<>>) for
\* an unknown stream; it is a function of the registry and writes nothing
getStreamStats(streams, s) ==
    IF s \notin DOMAIN streams THEN <<>>
    ELSE [streamId |-> s,
          isActive |-> streams[s].isActive,
          viewerCount |-> streams[s].viewerCount,
          maxViewers |-> streams[s].maxViewers,
          expiresAt |-> streams[s].expiresAt]

\* a mutant: a record is reaped at its expiry instant already
ReapableInclusive(rec, t) == rec.expiresAt <= t \/ ~rec.isActive

\* streamData.expiresAt < now || !streamData.isActive
Reapable(rec, t) == rec.expiresAt < t \/ ~rec.isActive

\* the stream ids cleanupExpiredStreams deletes; it returns their number
ReapedIds(streams, t) == {s \in DOMAIN streams : Reapable(streams[s], t)}

\* a mutant: the sessions of a reaped stream are kept
ReapedSessionsNone(sessions, gone) == {}

\* the sessions cleanupExpiredStreams deletes: those of the reaped streams
ReapedSessions(sessions, gone) ==
    {sid \in DOMAIN sessions : sessions[sid].streamId \in gone}

\* cleanedCount, the value cleanupExpiredStreams returns
cleanedCount(streams, t) == Cardinality(ReapedIds(streams, t))

CleanupExpiredStreams ==
    LET gone == ReapedIds(activeStreams, now) IN
    /\ activeStreams' = MapDelete(activeStreams, gone)
    /\ viewerSessions' = MapDelete(viewerSessions, ReapedSessions(viewerSessions, gone))
    /\ UNCHANGED <<now, nextUuid, tokens, stoppedJtis>>
    /\ UNCHANGED nonRegVars

\* the clock advances between calls
Tick ==
    /\ now < MaxNow
    /\ now' = now + 1
    /\ UNCHANGED <<activeStreams, viewerSessions, nextUuid, tokens, stoppedJtis>>
    /\ UNCHANGED nonRegVars

----------------------------------------------------------------------------
(* Segment cache and segment proxy (src/unnamed/part_002)                  *)

RECURSIVE SumSizes(_)
\* the byte lengths of the resident entries, added up
SumSizes(cache) ==
    IF cache = <<>> THEN 0 ELSE Head(cache).size + SumSizes(Tail(cache))

RECURSIVE SumSeq(_)
\* Buffer.concat(chunks).length
SumSeq(q) == IF q = <<>> THEN 0 ELSE Head(q) + SumSeq(Tail(q))

CacheHas(cache, key) == \E i \in 1..Len(cache) : cache[i].key = key

CacheGet(cache, key) == cache[CHOOSE i \in 1..Len(cache) : cache[i].key = key]

\* Map.set: an existing key keeps its place in the insertion order
CacheSet(cache, entry) ==
    IF CacheHas(cache, entry.key)
    THEN [i \in 1..Len(cache) |-> IF cache[i].key = entry.key THEN entry ELSE cache[i]]
    ELSE Append(cache, entry)

RECURSIVE Evict(_, _, _)
\* the while loop of cacheSegment: drop the first key of the Map while the
\* counter plus the new length exceeds the ceiling and an entry is left
Evict(cache, total, len) ==
    IF total + len > CACHE_MAX_SIZE /\ Len(cache) > 0
    THEN Evict(Tail(cache), total - Head(cache).size, len)
    ELSE [cache |-> cache, total |-> total]

\* cacheSegment(key, data) with data.length = len, at time t
cacheSegment(cache, total, key, len, t) ==
    LET e == Evict(cache, total, len) IN
    [cache |-> CacheSet(e.cache, [key |-> key, size |-> len, timestamp |-> t]),
     total |-> e.total + len]

\* cachedSegment && Date.now() - cachedSegment.timestamp < 30000
CacheHit(cache, key, t) ==
    CacheHas(cache, key) /\ t - CacheGet(cache, key).timestamp < SEGMENT_TTL

\* a mutant: the proxy serves ciphertexts only while the stream s1 is active
DecryptableWhileActive(key) ==
    /\ key # "bad"
    /\ "s1" \in DOMAIN activeStreams
    /\ activeStreams["s1"].isActive

\* decryptUrl(encryptedUrl) of proxySegment returns a URL
Decryptable(key) == key # "bad"

FreeRequestIds == (1..MaxRequests) \ DOMAIN requests

\* the headers of a segment response the claims speak of, "" for one not set
NoHeaders == [contentType |-> "", accessType |-> "", xCache |-> ""]

\* the setHeader calls of the cache-hit branch
HitHeaders == [contentType |-> "video/mp2t", accessType |-> "", xCache |-> "HIT"]

\* the setHeader calls of the response callback: the media type is set under
\* the name Access-Type
MissHeaders == [contentType |-> "", accessType |-> "video/mp2t", xCache |-> "MISS"]

\* no segment response has been sent yet
NoSegmentResponse == [status |-> 0]

\* a response of proxySegment: source tells where its bytes came from
SegmentResponse(key, status, headers, source, ended) ==
    [key |-> key, status |-> status, headers |-> headers, source |-> source,
     ended |-> ended]

\* res.headersSent of a request in flight: the first res.write sent the head
HeadersSent(req) == req.chunks # <<>>

\* the headers set on the response of a request in flight
HeadersSet(req) == IF req.phase = "relay" THEN MissHeaders ELSE NoHeaders

\* a mutant: a ciphertext that does not decrypt is sent upstream all the same
ProxySegmentUnchecked(key) ==
    /\ FreeRequestIds # {}
    /\ IF CacheHit(segmentCache, key, now)
       THEN /\ segmentResponse' = SegmentResponse(key, 200, HitHeaders, "cache", TRUE)
            /\ UNCHANGED requests
       ELSE /\ requests' = MapSet(requests, CHOOSE r \in FreeRequestIds : TRUE,
                               [key |-> key, phase |-> "upstream", chunks |-> <<>>])
            /\ UNCHANGED segmentResponse
    /\ UNCHANGED <<segmentCache, currentCacheSize>>
    /\ UNCHANGED <<now, nonCacheVars>>

\* proxySegment up to the upstream request: a hit is answered from the cache,
\* a ciphertext that does not decrypt is answered 500, a miss goes upstream
ProxySegment(key) ==
    /\ FreeRequestIds # {}
    /\ IF CacheHit(segmentCache, key, now)
       THEN /\ segmentResponse' = SegmentResponse(key, 200, HitHeaders, "cache", TRUE)
            /\ UNCHANGED requests
       ELSE IF ~Decryptable(key)
       THEN /\ segmentResponse' = SegmentResponse(key, 500, NoHeaders, "", TRUE)
            /\ UNCHANGED requests
       ELSE /\ requests' = MapSet(requests, CHOOSE r \in FreeRequestIds : TRUE,
                               [key |-> key, phase |-> "upstream", chunks |-> <<>>])
            /\ UNCHANGED segmentResponse
    /\ UNCHANGED <<segmentCache, currentCacheSize>>
    /\ UNCHANGED <<now, nonCacheVars>>

\* the response callback: the headers are set, and a status other than 200
\* ends the request with 502
UpstreamResponse(r, statusCode) ==
    /\ r \in DOMAIN requests
    /\ requests[r].phase = "upstream"
    /\ IF statusCode = 200
       THEN /\ requests' = [requests EXCEPT ![r].phase = "relay"]
            /\ UNCHANGED segmentResponse
       ELSE /\ requests' = MapDelete(requests, {r})
            /\ segmentResponse' =
                  SegmentResponse(requests[r].key, 502, MissHeaders, "", TRUE)
    /\ UNCHANGED <<segmentCache, currentCacheSize>>
    /\ UNCHANGED <<now, nonCacheVars>>

\* proxyRes.on('data'): the chunk is kept and written to the client
UpstreamData(r, n) ==
    /\ r \in DOMAIN requests
    /\ requests[r].phase = "relay"
    /\ Len(requests[r].chunks) < MaxChunks
    /\ requests' = [requests EXCEPT ![r].chunks = Append(@, n)]
    /\ UNCHANGED <<segmentCache, currentCacheSize, segmentResponse>>
    /\ UNCHANGED <<now, nonCacheVars>>

\* proxyRes.on('end'): the response is ended (status 200, the headers set by
\* the response callback) and the segment cached
UpstreamEnd(r) ==
    /\ r \in DOMAIN requests
    /\ requests[r].phase = "relay"
    /\ LET c == cacheSegment(segmentCache, currentCacheSize, requests[r].key,
                             SumSeq(requests[r].chunks), now)
       IN /\ segmentCache' = c.cache
          /\ currentCacheSize' = c.total
    /\ segmentResponse' = SegmentResponse(requests[r].key, 200, MissHeaders, "origin", TRUE)
    /\ requests' = MapDelete(requests, {r})
    /\ UNCHANGED <<now, nonCacheVars>>

\* what the error and timeout handlers of proxySegment leave the client with:
\* the given status if nothing was sent yet, else the response begun by
\* res.write, never ended
SegmentFailure(req, status) ==
    IF HeadersSent(req)
    THEN SegmentResponse(req.key, 200, MissHeaders, "origin", FALSE)
    ELSE SegmentResponse(req.key, status, HeadersSet(req), "", TRUE)

\* the requests left after the error or timeout handler ran for request r: if
\* the head has been sent the handler leaves the client response open, and
\* no later callback of the destroyed upstream request ends it
AfterFailure(reqs, r) ==
    IF HeadersSent(reqs[r])
    THEN [reqs EXCEPT ![r].phase = "abandoned"]
    ELSE MapDelete(reqs, {r})

\* the upstream request of r is open: its callbacks can still run
UpstreamOpen(r) ==
    r \in DOMAIN requests /\ requests[r].phase \in {"upstream", "relay"}

\* a mutant: the error handler caches the chunks received so far
SegmentErrorCaching(r) ==
    /\ UpstreamOpen(r)
    /\ segmentResponse' = SegmentFailure(requests[r], 502)
    /\ requests' = AfterFailure(requests, r)
    /\ LET c == cacheSegment(segmentCache, currentCacheSize, requests[r].key,
                             SumSeq(requests[r].chunks), now)
       IN /\ segmentCache' = c.cache
          /\ currentCacheSize' = c.total
    /\ UNCHANGED <<now, nonCacheVars>>

\* proxyReq.on('error'): 502 unless the head has been sent
SegmentError(r) ==
    /\ UpstreamOpen(r)
    /\ segmentResponse' = SegmentFailure(requests[r], 502)
    /\ requests' = AfterFailure(requests, r)
    /\ UNCHANGED <<segmentCache, currentCacheSize>>
    /\ UNCHANGED <<now, nonCacheVars>>

\* proxyReq.on('timeout'): the upstream request is destroyed, and 504 answered
\* unless the head has been sent
SegmentTimeout(r) ==
    /\ UpstreamOpen(r)
    /\ segmentResponse' = SegmentFailure(requests[r], 504)
    /\ requests' = AfterFailure(requests, r)
    /\ UNCHANGED <<segmentCache, currentCacheSize>>
    /\ UNCHANGED <<now, nonCacheVars>>

\* the clock advances while requests are in flight
CacheTick ==
    /\ now < MaxNow
    /\ now' = now + 1
    /\ UNCHANGED cacheVars
    /\ UNCHANGED nonCacheVars

----------------------------------------------------------------------------
(* URL cipher (src/auth.js encryptUrl / decryptUrl).  Strings are sequences *)
(* of one-character strings, buffers are sequences of bytes, URLs are       *)
(* sequences of code points.  AES-256 under the fixed key is a keyed        *)
(* function of the nonce and the block position; the GCM tag is a keyed     *)
(* function of nonce and ciphertext that differs whenever they differ.      *)

HexLower == <<"0", "1", "2", "3", "4", "5", "6", "7", "8", "9", "a", "b", "c", "d", "e", "f">>

HexUpper == <<"0", "1", "2", "3", "4", "5", "6", "7", "8", "9", "A", "B", "C", "D", "E", "F">>

IsHexDigit(c) == \E i \in 1..16 : HexLower[i] = c \/ HexUpper[i] = c

HexVal(c) == (CHOOSE i \in 1..16 : HexLower[i] = c \/ HexUpper[i] = c) - 1

RECURSIVE toHex(_)
\* buf.toString('hex') and the 'hex' output encoding of cipher.update
toHex(bytes) ==
    IF bytes = <<>> THEN <<>>
    ELSE <<HexLower[(Head(bytes) \div 16) + 1], HexLower[(Head(bytes) % 16) + 1]>>
            \o toHex(Tail(bytes))

RECURSIVE HexDecode(_)
\* Buffer.from(text, 'hex'): pairs of digits of either case are decoded up to
\* the first pair that is not hex; a trailing single character is dropped
HexDecode(text) ==
    IF Len(text) < 2 \/ ~IsHexDigit(text[1]) \/ ~IsHexDigit(text[2]) THEN <<>>
    ELSE <<HexVal(text[1]) * 16 + HexVal(text[2])>> \o HexDecode(SubSeq(text, 3, Len(text)))

\* one code point in UTF-8
Utf8Bytes(cp) ==
    IF cp < 128 THEN <<cp>>
    ELSE IF cp < 2048 THEN <<192 + (cp \div 64), 128 + (cp % 64)>>
    ELSE <<224 + (cp \div 4096), 128 + ((cp \div 64) % 64), 128 + (cp % 64)>>

RECURSIVE Utf8Encode(_)
\* the 'utf8' input encoding of cipher.update
Utf8Encode(url) ==
    IF url = <<>> THEN <<>> ELSE Utf8Bytes(Head(url)) \o Utf8Encode(Tail(url))

IsContinuation(b) == b >= 128 /\ b < 192

\* the bytes taken as one code point each
Latin1Decode(bytes) == bytes

RECURSIVE Utf8Decode(_)
\* the 'utf8' output encoding of decipher.update and decipher.final: a byte
\* that starts no well-formed sequence becomes U+FFFD
Utf8Decode(bytes) ==
    IF bytes = <<>> THEN <<>>
    ELSE LET b == bytes[1]
             n == Len(bytes)
         IN IF b < 128 THEN <<b>> \o Utf8Decode(Tail(bytes))
            ELSE IF b >= 194 /\ b < 224 /\ n >= 2 /\ IsContinuation(bytes[2])
            THEN <<(b - 192) * 64 + (bytes[2] - 128)>> \o Utf8Decode(SubSeq(bytes, 3, n))
            ELSE IF /\ b >= 224 /\ b < 240 /\ n >= 3
                    /\ IsContinuation(bytes[2]) /\ IsContinuation(bytes[3])
                    /\ (b - 224) * 4096 + (bytes[2] - 128) * 64 >= 2048
                    /\ ~((b - 224) * 4096 + (bytes[2] - 128) * 64 \in 55296..57343)
            THEN <<(b - 224) * 4096 + (bytes[2] - 128) * 64 + (bytes[3] - 128)>>
                    \o Utf8Decode(SubSeq(bytes, 4, n))
            ELSE <<65533>> \o Utf8Decode(Tail(bytes))

RECURSIVE XorBits(_, _, _)
XorBits(a, b, n) ==
    IF n = 0 THEN 0
    ELSE (((a % 2) + (b % 2)) % 2) + 2 * XorBits(a \div 2, b \div 2, n - 1)

RECURSIVE ByteSum(_)
ByteSum(bytes) == IF bytes = <<>> THEN 0 ELSE Head(bytes) + ByteSum(Tail(bytes))

\* the i-th keystream byte of AES-256 in counter mode under the server key
KeyStream(iv, i) == (7 * ByteSum(iv) + 31 * i + 113) % 256

\* counter mode: the same transformation encrypts and decrypts
CtrXor(iv, bytes) == [i \in 1..Len(bytes) |-> XorBits(bytes[i], KeyStream(iv, i), 8)]

\* the 16-byte GCM tag over nonce and ciphertext
GcmTag(iv, ct) ==
    [j \in 1..TAG_LENGTH |->
        IF j = 1 THEN (29 * Len(ct) + ByteSum(iv) + 71) % 256
        ELSE ((IF j - 1 <= Len(ct) THEN ct[j - 1] ELSE 0) + 13 * j + 3 * ByteSum(iv) + 5) % 256]

\* the tag lengths in bytes setAuthTag accepts for GCM when createDecipheriv
\* was given no authTagLength
GcmTagLengths == {4, 8, 12, 13, 14, 15, 16}

RECURSIVE Split(_)
\* text.split(':')
Split(text) ==
    IF \A i \in 1..Len(text) : text[i] # ":" THEN <<text>>
    ELSE LET k == CHOOSE i \in 1..Len(text) :
                     text[i] = ":" /\ \A j \in 1..(i - 1) : text[j] # ":"
         IN <<SubSeq(text, 1, k - 1)>> \o Split(SubSeq(text, k + 1, Len(text)))

RECURSIVE Join(_)
\* the fields put together again with ':' between them
Join(fields) ==
    IF fields = <<>> THEN <<>>
    ELSE IF Len(fields) = 1 THEN fields[1]
    ELSE fields[1] \o <<":">> \o Join(Tail(fields))

\* encryptUrl(url) when crypto.randomBytes returns iv
encryptUrl(url, iv) ==
    LET encrypted == CtrXor(iv, Utf8Encode(url))
        authTag == GcmTag(iv, encrypted)
    IN Join(<<toHex(iv), toHex(authTag), toHex(encrypted)>>)

TamperError ==
    [ok |-> FALSE, url |-> <<>>, error |-> "Failed to decrypt URL - possible tampering"]

\* decryptUrl(text): every throw inside the try becomes the one tamper error
decryptUrl(text) ==
    LET fields == Split(text) IN
    \* a missing authTagHex or encrypted is undefined: Buffer.from and update throw
    IF Len(fields) < 3 THEN TamperError
    ELSE LET iv == HexDecode(fields[1])
             authTag == HexDecode(fields[2])
             encrypted == fields[3]
             ct == HexDecode(encrypted)
         IN \* createDecipheriv rejects an empty nonce
            IF Len(iv) = 0 THEN TamperError
            \* setAuthTag rejects a tag of another length
            ELSE IF ~(Len(authTag) \in GcmTagLengths) THEN TamperError
            \* update rejects a hex string of odd length
            ELSE IF Len(encrypted) % 2 # 0 THEN TamperError
            \* final compares as many bytes of the tag as were set
            ELSE IF SubSeq(GcmTag(iv, ct), 1, Len(authTag)) # authTag THEN TamperError
            ELSE [ok |-> TRUE, url |-> Utf8Decode(CtrXor(iv, ct)), error |-> ""]

RECURSIVE SeqsUpTo(_, _)
\* the sequences over a set of length at most n
SeqsUpTo(S, n) ==
    IF n = 0 THEN {<<>>}
    ELSE LET shorter == SeqsUpTo(S, n - 1)
         IN shorter \cup {Append(q, x) : q \in shorter, x \in S}

Urls == SeqsUpTo(UrlChars, MaxUrlLen)

Nonces == {[i \in 1..IV_LENGTH |-> (seed + 17 * i) % 256] : seed \in NonceSeeds}

\* the fields a client alters: 2 is the tag, 3 the payload
TamperFields == {2, 3}

FieldName(f) == IF f = 2 THEN "tag" ELSE "payload"

\* the longest hex field of a ciphertext
HexFieldLen == 2 * Max(TAG_LENGTH, 3 * MaxUrlLen)

\* by how much a replaced hex digit differs from the one it replaces
DigitDeltas == {1, 8}

\* characters appended to a field
Suffixes == {<<"0">>, <<"0", "0">>, <<"z", "z">>}

\* a fourth field appended to the triple
ExtraFields == {<<>>, <<"0", "0">>}

SetField(text, f, value) == Join([Split(text) EXCEPT ![f] = value])

\* a caller encrypts a URL; the ciphertext goes to the client.  The cipher
\* keeps nothing between calls, so one ciphertext is followed per behaviour
EncryptUrl(u, iv) ==
    /\ handling = "none"
    /\ encryptedUrl' = encryptUrl(u, iv)
    /\ plainUrl' = u
    /\ handling' = "pristine"
    /\ revealed' = <<>>
    /\ UNCHANGED nonCipherVars

\* the client replaces one hex digit of a field by another hex digit
ReplaceDigit(f, pos, d) ==
    /\ handling = "pristine"
    /\ pos <= Len(Split(encryptedUrl)[f])
    /\ LET field == Split(encryptedUrl)[f]
       IN encryptedUrl' = SetField(encryptedUrl, f,
             [field EXCEPT ![pos] = HexLower[((HexVal(field[pos]) + d) % 16) + 1]])
    /\ handling' = FieldName(f)
    /\ revealed' = <<>>
    /\ UNCHANGED plainUrl
    /\ UNCHANGED nonCipherVars

\* the client writes one hex letter of a field in upper case
ChangeCase(f, pos) ==
    /\ handling = "pristine"
    /\ pos <= Len(Split(encryptedUrl)[f])
    /\ HexVal(Split(encryptedUrl)[f][pos]) >= 10
    /\ LET field == Split(encryptedUrl)[f]
       IN encryptedUrl' = SetField(encryptedUrl, f,
             [field EXCEPT ![pos] = HexUpper[HexVal(field[pos]) + 1]])
    /\ handling' = FieldName(f)
    /\ revealed' = <<>>
    /\ UNCHANGED plainUrl
    /\ UNCHANGED nonCipherVars

\* the client appends characters to a field
AppendChars(f, suffix) ==
    /\ handling = "pristine"
    /\ encryptedUrl' = SetField(encryptedUrl, f, Split(encryptedUrl)[f] \o suffix)
    /\ handling' = FieldName(f)
    /\ revealed' = <<>>
    /\ UNCHANGED plainUrl
    /\ UNCHANGED nonCipherVars

\* the client keeps only the first n bytes of the tag field
TruncateTag(n) ==
    /\ handling = "pristine"
    /\ encryptedUrl' = SetField(encryptedUrl, 2, SubSeq(Split(encryptedUrl)[2], 1, 2 * n))
    /\ handling' = "tag"
    /\ revealed' = <<>>
    /\ UNCHANGED plainUrl
    /\ UNCHANGED nonCipherVars

\* the client appends ':' and a fourth field
AppendField(extra) ==
    /\ handling = "pristine"
    /\ encryptedUrl' = encryptedUrl \o <<":">> \o extra
    /\ handling' = "extraField"
    /\ revealed' = <<>>
    /\ UNCHANGED plainUrl
    /\ UNCHANGED nonCipherVars

\* the client sends only the first n fields
KeepFields(n) ==
    /\ handling = "pristine"
    /\ encryptedUrl' = Join(SubSeq(Split(encryptedUrl), 1, n))
    /\ handling' = "missingField"
    /\ revealed' = <<>>
    /\ UNCHANGED plainUrl
    /\ UNCHANGED nonCipherVars

\* decryptUrl(encryptedUrl) is called with the string the client sent
DecryptUrl ==
    /\ revealed = <<>>
    /\ revealed' = <<decryptUrl(encryptedUrl)>>
    /\ UNCHANGED <<encryptedUrl, plainUrl, handling>>
    /\ UNCHANGED nonCipherVars

----------------------------------------------------------------------------
(* Text primitives of the manifest proxy (src/unnamed/part_002).  A string  *)
(* is the sequence of its characters; a playlist is the sequence of its     *)
(* lines, which is what manifest.split('\n') and rewritten.join('\n') pass  *)
(* between them.                                                            *)

\* the printable ASCII characters, U+0020 to U+007E, in code order (the grave
\* accent, which a string of this notation cannot hold, by its name)
Ascii == <<" ", "!", "\"", "#", "$", "%", "&", "'", "(", ")", "*", "+", ",",
    "-", ".", "/", "0", "1", "2", "3", "4", "5", "6", "7", "8", "9", ":",
    ";", "<", "=", ">", "?", "@", "A", "B", "C", "D", "E", "F", "G", "H",
    "I", "J", "K", "L", "M", "N", "O", "P", "Q", "R", "S", "T", "U", "V",
    "W", "X", "Y", "Z", "[", "\\", "]", "^", "_", "U+0060", "a", "b", "c", "d",
    "e", "f", "g", "h", "i", "j", "k", "l", "m", "n", "o", "p", "q", "r",
    "s", "t", "u", "v", "w", "x", "y", "z", "{", "|", "}", "~">>

CodePoint(c) == 31 + (CHOOSE i \in 1..Len(Ascii) : Ascii[i] = c)

\* a string as the code points cipher.update(url, 'utf8', ...) is given
ToCodePoints(str) == [i \in 1..Len(str) |-> CodePoint(str[i])]

\* the string decipher returns, for code points of printable ASCII
FromCodePoints(cps) ==
    [i \in 1..Len(cps) |-> IF cps[i] >= 32 /\ cps[i] <= 126 THEN Ascii[cps[i] - 31] ELSE "?"]

\* str.startsWith(prefix)
StartsWith(str, prefix) ==
    Len(prefix) <= Len(str) /\ SubSeq(str, 1, Len(prefix)) = prefix

\* str.endsWith(suffix)
EndsWith(str, suffix) ==
    Len(suffix) <= Len(str) /\ SubSeq(str, Len(str) - Len(suffix) + 1, Len(str)) = suffix

\* str.indexOf(pat) + 1: the first position pat occurs at, 0 when it does not
IndexOf(str, pat) ==
    LET hits == {i \in 1..(Len(str) - Len(pat) + 1) : SubSeq(str, i, i + Len(pat) - 1) = pat}
    IN IF hits = {} THEN 0 ELSE CHOOSE i \in hits : \A j \in hits : i <= j

\* str.includes(pat)
Includes(str, pat) == IndexOf(str, pat) > 0

IsSpace(c) == c = " "

\* the separator of the lines of a playlist
Newline == "\n"

RECURSIVE SplitLines(_)
\* manifest.split('\n')
SplitLines(manifest) ==
    LET i == IndexOf(manifest, <<Newline>>) IN
    IF i = 0 THEN <<manifest>>
    ELSE <<SubSeq(manifest, 1, i - 1)>> \o SplitLines(SubSeq(manifest, i + 1, Len(manifest)))

RECURSIVE JoinLines(_)
\* rewritten.join('\n')
JoinLines(rewritten) ==
    IF rewritten = <<>> THEN <<>>
    ELSE IF Len(rewritten) = 1 THEN rewritten[1]
    ELSE rewritten[1] \o <<Newline>> \o JoinLines(Tail(rewritten))

\* str.trim()
Trim(str) ==
    LET inked == {i \in 1..Len(str) : ~IsSpace(str[i])}
    IN IF inked = {} THEN <<>>
       ELSE SubSeq(str, CHOOSE i \in inked : \A j \in inked : i <= j,
                        CHOOSE i \in inked : \A j \in inked : i >= j)

\* str.match(/URI="([^"]+)"/): the captured group of the leftmost match, <<>>
\* when nothing matches
UriMatch(str) ==
    LET open == <<"U", "R", "I", "=", "\"">>
        starts == {i \in 1..Len(str) :
                     /\ i + Len(open) <= Len(str)
                     /\ SubSeq(str, i, i + Len(open) - 1) = open
                     /\ str[i + Len(open)] # "\""
                     /\ \E j \in (i + Len(open) + 1)..Len(str) : str[j] = "\""}
    IN IF starts = {} THEN <<>>
       ELSE LET i == CHOOSE k \in starts : \A j \in starts : k <= j
                from == i + Len(open)
                close == CHOOSE j \in (from + 1)..Len(str) :
                            str[j] = "\"" /\ \A k \in (from + 1)..(j - 1) : str[k] # "\""
            IN SubSeq(str, from, close - 1)

\* str.replace(pat, rep) with a string pattern: the first occurrence only
ReplaceFirst(str, pat, rep) ==
    LET i == IndexOf(str, pat)
    IN IF i = 0 THEN str
       ELSE SubSeq(str, 1, i - 1) \o rep \o SubSeq(str, i + Len(pat), Len(str))

\* url.resolve(from, to) for an absolute from: an absolute to stands, a to
\* that starts with '/' replaces the path, any other to replaces the last
\* path segment of from (its query dropped)
UrlResolve(from, to) ==
    LET sep == <<":", "/", "/">>
        hostAt == IndexOf(from, sep) + Len(sep)
        cuts == {i \in hostAt..Len(from) : from[i] \in {"?", "#"}}
        bare == IF cuts = {} THEN from
                ELSE SubSeq(from, 1, (CHOOSE i \in cuts : \A j \in cuts : i <= j) - 1)
        slashes == {i \in hostAt..Len(bare) : bare[i] = "/"}
        origin == IF slashes = {} THEN bare
                  ELSE SubSeq(bare, 1, (CHOOSE i \in slashes : \A j \in slashes : i <= j) - 1)
        dir == IF slashes = {} THEN bare \o <<"/">>
               ELSE SubSeq(bare, 1, CHOOSE i \in slashes : \A j \in slashes : i >= j)
    IN IF to = <<>> THEN from
       ELSE IF Includes(to, sep) THEN to
       ELSE IF to[1] = "/" THEN origin \o to
       ELSE dir \o to

\* the characters encodeURIComponent leaves as they are
Unreserved == {Ascii[i] : i \in (17..26) \cup (34..59) \cup (66..91)}
                  \cup {"-", "_", ".", "!", "~", "*", "'", "(", ")"}

RECURSIVE Concat(_, _, _)
\* pieces[lo] \o ... \o pieces[hi]
Concat(pieces, lo, hi) ==
    IF lo > hi THEN <<>>
    ELSE IF lo = hi THEN pieces[lo]
    ELSE Concat(pieces, lo, (lo + hi) \div 2) \o Concat(pieces, ((lo + hi) \div 2) + 1, hi)

\* encodeURIComponent(str) for ASCII text: every other character as %XX
encodeURIComponent(str) ==
    Concat([i \in 1..Len(str) |->
               IF str[i] \in Unreserved THEN <<str[i]>>
               ELSE <<"%", HexUpper[(CodePoint(str[i]) \div 16) + 1],
                           HexUpper[(CodePoint(str[i]) % 16) + 1]>>],
           1, Len(str))

\* a %XX escape starts at position i of str
EscapeAt(str, i) ==
    /\ i >= 1
    /\ i + 2 <= Len(str)
    /\ str[i] = "%"
    /\ IsHexDigit(str[i + 1])
    /\ IsHexDigit(str[i + 2])

\* the value of req.query.url: the %XX escapes of the query string decoded
decodeQueryValue(str) ==
    Concat([i \in 1..Len(str) |->
               IF EscapeAt(str, i)
               THEN FromCodePoints(<<HexVal(str[i + 1]) * 16 + HexVal(str[i + 2])>>)
               ELSE IF EscapeAt(str, i - 1) \/ EscapeAt(str, i - 2) THEN <<>>
               ELSE <<str[i]>>],
           1, Len(str))

----------------------------------------------------------------------------
(* Manifest proxy: proxyManifest and rewriteManifestUrls                    *)
(* (src/unnamed/part_002)                                                   *)

CommentMark == <<"#">>

KeyTag == <<"#", "E", "X", "T", "-", "X", "-", "K", "E", "Y">>

ExtM3u8 == <<".", "m", "3", "u", "8">>

ExtTs == <<".", "t", "s">>

ExtTsQuery == <<".", "t", "s", "?">>

ExtMp4 == <<".", "m", "p", "4">>

ExtM4s == <<".", "m", "4", "s">>

KeyEndpoint == <<"/", "k", "e", "y", "?", "u", "r", "l", "=">>

ManifestEndpoint == <<"/", "m", "a", "n", "i", "f", "e", "s", "t", "?", "u",
    "r", "l", "=">>

SegmentEndpoint == <<"/", "s", "e", "g", "m", "e", "n", "t", "?", "u", "r",
    "l", "=">>

\* `${req.protocol}://${req.get('host')}/proxy` of the /proxy/manifest route
ProxyBaseUrl == <<"h", "t", "t", "p", ":", "/", "/", "p", "/", "p", "r", "o",
    "x", "y">>

\* the manifest URLs clients hold ciphertexts of
ManifestUrls == {<<"h", "t", "t", "p", ":", "/", "/", "o", "/", "a", "/", "i", ".", "m", "3", "u", "8">>}

\* the Location header of an origin response: none, or a path on the origin
\* (the second one leads back to the manifest URL clients ask for)
Locations == {<<>>,
              <<"/", "b", "/", "j", ".", "m", "3", "u", "8">>,
              <<"/", "a", "/", "i", ".", "m", "3", "u", "8">>}

\* the status codes the origin answers a manifest request with
ManifestStatuses == {200, 302, 404}

\* the lines origin playlists are made of: blank, comment tag (with a
\* trailing space), media segments (padded with a query, absolute), variant
\* playlists (plain, with a query, with '.ts?' inside), a rooted init segment,
\* a key tag, a map tag
PlaylistLines == {
    <<>>,
    <<"#", "E", "X", "T", "I", "N", "F", ":", "4", ",", " ">>,
    <<"s", ".", "t", "s", "?", "v", ".", "m", "3", "u", "8">>,
    <<" ", "s", ".", "t", "s", "?", "q">>,
    <<"v", ".", "m", "3", "u", "8">>,
    <<"v", ".", "m", "3", "u", "8", "?", "q">>,
    <<"/", "r", "/", "f", ".", "m", "4", "s">>,
    <<"#", "E", "X", "T", "-", "X", "-", "K", "E", "Y", ":", "U", "R", "I", "=", "\"", "k", "\"">>,
    <<"#", "E", "X", "T", "-", "X", "-", "M", "A", "P", ":", "U", "R", "I", "=", "\"", "i", ".", "m", "p", "4", "\"">>,
    <<"h", "t", "t", "p", ":", "/", "/", "c", "/", "s", ".", "t", "s">>}

Playlists == SeqsUpTo(PlaylistLines, MaxLines)

\* `${proxyBaseUrl}/<endpoint>?url=${encodeURIComponent(encryptUrl(target))}`
ProxyUrl(proxyBaseUrl, endpoint, target, iv) ==
    proxyBaseUrl \o endpoint \o encodeURIComponent(encryptUrl(ToCodePoints(target), iv))

\* a mutant: the reference is encrypted as it stands in the playlist
TargetUrlUnresolved(baseUrl, ref) == ref

\* keyUrl, variantUrl, segmentUrl, initUrl: url.resolve(baseUrl, <reference>)
TargetUrl(baseUrl, ref) == UrlResolve(baseUrl, ref)

\* a mutant: a line that is not rewritten is pushed without its padding
PassThroughTrimmed(line, trimmedLine) == trimmedLine

\* rewritten.push(line) for a line that is not rewritten
PassThrough(line, trimmedLine) == line

\* a mutant: the media segment test comes before the variant playlist test
rewriteLineSegmentFirst(line, baseUrl, proxyBaseUrl, iv) ==
    LET trimmedLine == Trim(line) IN
    IF trimmedLine = <<>>
       \/ (StartsWith(trimmedLine, CommentMark) /\ ~StartsWith(trimmedLine, KeyTag))
    THEN PassThrough(line, trimmedLine)
    ELSE IF StartsWith(trimmedLine, KeyTag) /\ UriMatch(trimmedLine) # <<>>
    THEN ReplaceFirst(line, UriMatch(trimmedLine),
            ProxyUrl(proxyBaseUrl, KeyEndpoint, TargetUrl(baseUrl, UriMatch(trimmedLine)), iv))
    ELSE IF EndsWith(trimmedLine, ExtTs) \/ Includes(trimmedLine, ExtTsQuery)
    THEN ProxyUrl(proxyBaseUrl, SegmentEndpoint, TargetUrl(baseUrl, trimmedLine), iv)
    ELSE IF EndsWith(trimmedLine, ExtM3u8)
    THEN ProxyUrl(proxyBaseUrl, ManifestEndpoint, TargetUrl(baseUrl, trimmedLine), iv)
    ELSE IF EndsWith(trimmedLine, ExtMp4) \/ EndsWith(trimmedLine, ExtM4s)
    THEN ProxyUrl(proxyBaseUrl, SegmentEndpoint, TargetUrl(baseUrl, trimmedLine), iv)
    ELSE PassThrough(line, trimmedLine)

\* the body of the for loop of rewriteManifestUrls: what is pushed for a line
rewriteLine(line, baseUrl, proxyBaseUrl, iv) ==
    LET trimmedLine == Trim(line) IN
    IF trimmedLine = <<>>
       \/ (StartsWith(trimmedLine, CommentMark) /\ ~StartsWith(trimmedLine, KeyTag))
    THEN PassThrough(line, trimmedLine)
    ELSE IF StartsWith(trimmedLine, KeyTag) /\ UriMatch(trimmedLine) # <<>>
    THEN ReplaceFirst(line, UriMatch(trimmedLine),
            ProxyUrl(proxyBaseUrl, KeyEndpoint, TargetUrl(baseUrl, UriMatch(trimmedLine)), iv))
    ELSE IF EndsWith(trimmedLine, ExtM3u8)
    THEN ProxyUrl(proxyBaseUrl, ManifestEndpoint, TargetUrl(baseUrl, trimmedLine), iv)
    ELSE IF EndsWith(trimmedLine, ExtTs) \/ Includes(trimmedLine, ExtTsQuery)
    THEN ProxyUrl(proxyBaseUrl, SegmentEndpoint, TargetUrl(baseUrl, trimmedLine), iv)
    ELSE IF EndsWith(trimmedLine, ExtMp4) \/ EndsWith(trimmedLine, ExtM4s)
    THEN ProxyUrl(proxyBaseUrl, SegmentEndpoint, TargetUrl(baseUrl, trimmedLine), iv)
    ELSE PassThrough(line, trimmedLine)

\* rewriteManifestUrls(manifest, baseUrl, proxyBaseUrl, .) on the lines of the
\* manifest, when the encryptUrl calls draw the nonce iv
rewriteManifestUrls(lines, baseUrl, proxyBaseUrl, iv) ==
    [i \in 1..Len(lines) |-> rewriteLine(lines[i], baseUrl, proxyBaseUrl, iv)]

\* a mutant: the redirect is followed by asking for the same URL again
RedirectedRequestSame(originalUrl, location, iv) ==
    encryptUrl(ToCodePoints(originalUrl), iv)

\* encryptedRedirect of proxyManifest: the resolved Location, encrypted
RedirectedRequest(originalUrl, location, iv) ==
    encryptUrl(ToCodePoints(UrlResolve(originalUrl, location)), iv)

\* the ciphertexts clients send to /proxy/manifest: genuine ones and one that
\* is no ciphertext
ManifestCiphertexts ==
    {encryptUrl(ToCodePoints(u), iv) : u \in ManifestUrls, iv \in Nonces} \cup {<<"0">>}

\* no manifest request is being served
NoManifestRequest == [phase |-> "idle"]

\* a manifest request as proxyManifest is entered: nothing fetched, nothing
\* sent.  sendCalls counts the calls of res.status(.).json / .send made for the
\* client response; hangUp tells that the upstream request was destroyed
\* before any response arrived, for which Node emits 'error' ("socket hang
\* up") on the request
NewManifestRequest ==
    [phase |-> "idle", requestUrl |-> <<>>, originalUrl |-> <<>>, redirectedTo |-> <<>>,
     origin |-> <<>>, status |-> 0, body |-> <<>>, destroyed |-> FALSE,
     sendCalls |-> 0, hangUp |-> FALSE]

\* proxyManifest once decryptUrl(encryptedUrl) has returned d or thrown
\* (d.ok false): a ciphertext that does not decrypt is answered 500, for
\* another the upstream request is sent
ProxyManifestDecrypted(ciphertext, d) ==
    /\ manifestRequest.phase = "idle"
    /\ IF d.ok
       THEN manifestRequest' = [NewManifestRequest EXCEPT
                !.phase = "upstream",
                !.requestUrl = FromCodePoints(d.url),
                !.originalUrl = FromCodePoints(d.url)]
       ELSE manifestRequest' = [NewManifestRequest EXCEPT
                !.phase = "done", !.status = 500, !.sendCalls = 1]
    /\ UNCHANGED nonManifestVars

\* proxyManifest up to the upstream request
ProxyManifest(ciphertext) ==
    LET d == decryptUrl(ciphertext) IN ProxyManifestDecrypted(ciphertext, d)

\* the response callback: a 3xx with a Location header re-enters proxyManifest
\* with the encrypted redirect URL, however many redirects were followed
\* before (the code keeps no count of them); another status than 200 is
\* answered 502
ManifestResponse(statusCode, location, iv) ==
    /\ manifestRequest.phase = "upstream"
    /\ IF statusCode >= 300 /\ statusCode < 400 /\ location # <<>>
       THEN manifestRequest' = [manifestRequest EXCEPT
                 !.originalUrl = FromCodePoints(
                     decryptUrl(RedirectedRequest(manifestRequest.originalUrl, location, iv)).url),
                 !.redirectedTo = UrlResolve(manifestRequest.originalUrl, location)]
       ELSE IF statusCode # 200
       THEN manifestRequest' = [manifestRequest EXCEPT
                 !.phase = "done", !.status = 502, !.sendCalls = @ + 1]
       ELSE manifestRequest' = [manifestRequest EXCEPT !.phase = "relay"]
    /\ UNCHANGED nonManifestVars

\* proxyRes.on('end'): the collected playlist is rewritten against originalUrl
\* and sent with status 200
ManifestEnd(lines, iv) ==
    /\ manifestRequest.phase = "relay"
    /\ manifestRequest' = [manifestRequest EXCEPT
          !.phase = "done",
          !.status = 200,
          !.sendCalls = @ + 1,
          !.origin = lines,
          !.body = rewriteManifestUrls(lines, manifestRequest.originalUrl, ProxyBaseUrl, iv)]
    /\ UNCHANGED nonManifestVars

\* the status the client has, or gets, when a handler calls
\* res.status(code).json(.): the first call sends the head; a later one throws
\* once the head has been sent and leaves the client with what it has
StatusSent(req, code) == IF req.sendCalls = 0 THEN code ELSE req.status

\* proxyReq.on('error'): the connection to the origin failed, or the request
\* was destroyed before a response arrived; res.status(502).json(.) is called
\* whether or not the client has been answered
ManifestError ==
    /\ manifestRequest.phase # "idle"
    /\ manifestRequest.phase = "upstream" \/ manifestRequest.hangUp
    /\ manifestRequest' = [manifestRequest EXCEPT
          !.phase = "done",
          !.status = StatusSent(manifestRequest, 502),
          !.sendCalls = @ + 1,
          !.hangUp = FALSE]
    /\ UNCHANGED nonManifestVars

\* proxyReq.on('timeout'): the socket was idle for REQUEST_TIMEOUT; the
\* request is destroyed and 504 answered (the body is sent only at 'end', so
\* nothing has been sent before)
ManifestTimeout ==
    /\ manifestRequest.phase \in {"upstream", "relay"}
    /\ manifestRequest' = [manifestRequest EXCEPT
          !.phase = "done", !.status = 504, !.destroyed = TRUE,
          !.sendCalls = @ + 1,
          !.hangUp = (manifestRequest.phase = "upstream")]
    /\ UNCHANGED nonManifestVars

----------------------------------------------------------------------------
(* Key proxy: proxyKey (src/unnamed/part_002)                               *)

\* the ciphertexts clients send to /proxy/key: genuine ones and one that is
\* no ciphertext
KeyCiphertexts ==
    {encryptUrl(u, iv) : u \in Urls, iv \in Nonces} \cup {<<"0">>}

\* the status codes the origin answers a key request with
KeyStatuses == {200, 302, 404}

\* no key request is being served
NoKeyRequest == [phase |-> "idle"]

\* a key request as proxyKey is entered; upstream is proxyRes.statusCode, 0
\* while the origin has not answered
NewKeyRequest ==
    [phase |-> "idle", encryptedUrl |-> <<>>, originalUrl |-> <<>>, status |-> 0,
     upstream |-> 0, timedOut |-> FALSE, destroyed |-> FALSE]

\* proxyKey once decryptUrl(encryptedUrl) has returned d or thrown (d.ok
\* false): a ciphertext that does not decrypt is answered 500, for another
\* the upstream request is sent
ProxyKeyDecrypted(ciphertext, d) ==
    /\ keyRequest.phase = "idle"
    /\ IF d.ok
       THEN keyRequest' = [NewKeyRequest EXCEPT
                !.phase = "upstream",
                !.encryptedUrl = ciphertext,
                !.originalUrl = d.url]
       ELSE keyRequest' = [NewKeyRequest EXCEPT
                !.phase = "done", !.encryptedUrl = ciphertext, !.status = 500]
    /\ UNCHANGED nonKeyVars

\* proxyKey up to the upstream request
ProxyKey(ciphertext) ==
    LET d == decryptUrl(ciphertext) IN ProxyKeyDecrypted(ciphertext, d)

\* a mutant: every status below 400 is piped to the client
KeyResponseBelow400(statusCode) ==
    /\ keyRequest.phase = "upstream"
    /\ IF statusCode >= 400
       THEN keyRequest' = [keyRequest EXCEPT
                !.phase = "done", !.status = 502, !.upstream = statusCode]
       ELSE keyRequest' = [keyRequest EXCEPT
                !.phase = "relay", !.status = statusCode, !.upstream = statusCode]
    /\ UNCHANGED nonKeyVars

\* the response callback: another status than 200 is answered 502, a 200 is
\* piped to the client
KeyResponse(statusCode) ==
    /\ keyRequest.phase = "upstream"
    /\ IF statusCode # 200
       THEN keyRequest' = [keyRequest EXCEPT
                !.phase = "done", !.status = 502, !.upstream = statusCode]
       ELSE keyRequest' = [keyRequest EXCEPT
                !.phase = "relay", !.status = 200, !.upstream = statusCode]
    /\ UNCHANGED nonKeyVars

\* proxyRes.pipe(res) reaches the end of the origin's body and ends res
KeyEnd ==
    /\ keyRequest.phase = "relay"
    /\ keyRequest' = [keyRequest EXCEPT !.phase = "done"]
    /\ UNCHANGED nonKeyVars

\* proxyReq.on('error'): res.status(502).end(); once the pipe has sent the
\* head, the status sent stays and the response is just ended
KeyError ==
    /\ keyRequest.phase \in {"upstream", "relay"}
    /\ keyRequest' = [keyRequest EXCEPT
          !.phase = "done",
          !.status = IF keyRequest.phase = "upstream" THEN 502 ELSE @]
    /\ UNCHANGED nonKeyVars

\* the socket of the upstream request was idle for REQUEST_TIMEOUT and emits
\* 'timeout': proxyKey registers no listener for it, so the request is neither
\* destroyed nor answered
KeyTimeout ==
    /\ keyRequest.phase \in {"upstream", "relay"}
    /\ ~keyRequest.timedOut
    /\ keyRequest' = [keyRequest EXCEPT !.timedOut = TRUE]
    /\ UNCHANGED nonKeyVars

----------------------------------------------------------------------------
(* Process restart: the module-level state of src/auth.js and of            *)
(* src/unnamed/part_002 is built anew; the tokens clients hold, the clock   *)
(* and the uuids already drawn are not the process's                        *)

\* a mutant: the Map comes back with what it held
RestartedMapKept(m) == m

\* new Map() at module load
RestartedMap(m) == EmptyMap

NoRestart == [tokens |-> {}, streams |-> {}, cached |-> 0]

Restart ==
    /\ activeStreams' = RestartedMap(activeStreams)
    /\ viewerSessions' = RestartedMap(viewerSessions)
    /\ segmentCache' = <<>>
    /\ currentCacheSize' = 0
    /\ requests' = EmptyMap
    /\ segmentResponse' = NoSegmentResponse
    /\ manifestRequest' = NoManifestRequest
    /\ keyRequest' = NoKeyRequest
    /\ lastRestart' = [tokens |-> tokens,
                       streams |-> DOMAIN activeStreams,
                       cached |-> Len(segmentCache)]
    /\ UNCHANGED <<now, nextUuid, tokens, stoppedJtis, cipherVars>>

----------------------------------------------------------------------------
Init ==
    /\ now = 0
    /\ activeStreams = EmptyMap
    /\ viewerSessions = EmptyMap
    /\ nextUuid = 1
    /\ tokens = {}
    /\ stoppedJtis = {}
    /\ segmentCache = <<>>
    /\ currentCacheSize = 0
    /\ requests = EmptyMap
    /\ segmentResponse = NoSegmentResponse
    /\ encryptedUrl = <<>>
    /\ plainUrl = <<>>
    /\ handling = "none"
    /\ revealed = <<>>
    /\ manifestRequest = NoManifestRequest
    /\ keyRequest = NoKeyRequest
    /\ lastRestart = NoRestart

\* validateToken writes nothing, so a forged signature gives the same step as
\* a genuine one; the verdicts for forged tokens are those of the operator
\* validateToken
Next ==
    \/ \E s \in StreamIds, m \in ExpiryInputs : GenerateToken(s, m)
    \/ \E tok \in tokens : ValidateToken(tok, TRUE)
    \/ \E s \in StreamIds, sid \in SessionIds : RegisterViewer(s, sid)
    \/ \E sid \in SessionIds : RemoveViewer(sid)
    \/ \E s \in StreamIds : StopStream(s)
    \/ CleanupExpiredStreams
    \/ Tick

CacheNext ==
    \/ \E key \in CacheKeys : ProxySegment(key)
    \/ \E r \in 1..MaxRequests, statusCode \in SegmentStatuses : UpstreamResponse(r, statusCode)
    \/ \E r \in 1..MaxRequests, n \in ChunkSizes : UpstreamData(r, n)
    \/ \E r \in 1..MaxRequests : UpstreamEnd(r)
    \/ \E r \in 1..MaxRequests : SegmentError(r)
    \/ \E r \in 1..MaxRequests : SegmentTimeout(r)
    \/ CacheTick

Spec == Init /\ [][Next]_vars

CacheSpec == Init /\ [][CacheNext]_vars

CipherNext ==
    \/ \E u \in Urls, iv \in Nonces : EncryptUrl(u, iv)
    \/ \E f \in TamperFields, pos \in 1..HexFieldLen, d \in DigitDeltas : ReplaceDigit(f, pos, d)
    \/ \E f \in TamperFields, pos \in 1..HexFieldLen : ChangeCase(f, pos)
    \/ \E f \in TamperFields, suffix \in Suffixes : AppendChars(f, suffix)
    \/ \E n \in 1..(TAG_LENGTH - 1) : TruncateTag(n)
    \/ \E extra \in ExtraFields : AppendField(extra)
    \/ \E n \in 0..2 : KeepFields(n)
    \/ DecryptUrl

CipherSpec == Init /\ [][CipherNext]_vars

ManifestNext ==
    \/ \E ciphertext \in ManifestCiphertexts : ProxyManifest(ciphertext)
    \/ \E statusCode \in ManifestStatuses, location \in Locations, iv \in Nonces :
          ManifestResponse(statusCode, location, iv)
    \/ \E lines \in Playlists, iv \in Nonces : ManifestEnd(lines, iv)
    \/ ManifestError
    \/ ManifestTimeout

ManifestSpec == Init /\ [][ManifestNext]_vars

\* the segment proxy with two cache keys and at most two requests in flight,
\* at one instant of the clock
RelayNext ==
    \/ \E key \in {"k1", "k2"} : Cardinality(DOMAIN requests) < 2 /\ ProxySegment(key)
    \/ \E r \in 1..MaxRequests, statusCode \in SegmentStatuses : UpstreamResponse(r, statusCode)
    \/ \E r \in 1..MaxRequests, n \in ChunkSizes : UpstreamData(r, n)
    \/ \E r \in 1..MaxRequests : UpstreamEnd(r)
    \/ \E r \in 1..MaxRequests : SegmentError(r)
    \/ \E r \in 1..MaxRequests : SegmentTimeout(r)

RelaySpec == Init /\ [][RelayNext]_vars

\* the origin and the timer do not stay silent for ever: while an event of
\* the segment proxy can occur, one does
RelayLiveSpec == RelaySpec /\ WF_vars(RelayNext)

\* the nonce of the ciphertexts sent to the gateway
GatewayNonce == CHOOSE iv \in Nonces : TRUE

\* the ciphertexts sent to /proxy/manifest of the gateway: a genuine one and
\* one that is no ciphertext
GatewayManifests ==
    {encryptUrl(ToCodePoints(u), GatewayNonce) : u \in ManifestUrls} \cup {<<"0">>}

\* the ciphertexts sent to /proxy/key of the gateway
GatewayKeys == {encryptUrl(<<47>>, GatewayNonce), <<"0">>}

\* the ciphertexts sent to /proxy/segment of the gateway
GatewaySegments == {"k1", "bad"}

\* the playlists the origin of the gateway sends: an empty one and a segment
GatewayPlaylists == {<<>>, <<<<"s", ".", "t", "s">>>>}

\* the steps of the registry of the gateway, for one stream
GatewayRegistry ==
    \/ GenerateToken("s1", 1)
    \/ StopStream("s1")
    \/ CleanupExpiredStreams
    \/ Tick

\* the steps of the segment proxy of the gateway, one upstream request at a
\* time, fed chunks of one byte
GatewaySegment ==
    \/ \E key \in GatewaySegments :
          (\A r \in DOMAIN requests : ~UpstreamOpen(r)) /\ ProxySegment(key)
    \/ \E r \in 1..MaxRequests, statusCode \in SegmentStatuses : UpstreamResponse(r, statusCode)
    \/ \E r \in 1..MaxRequests : UpstreamData(r, 1)
    \/ \E r \in 1..MaxRequests : UpstreamEnd(r)
    \/ \E r \in 1..MaxRequests : SegmentError(r)
    \/ \E r \in 1..MaxRequests : SegmentTimeout(r)

\* the steps of the manifest proxy of the gateway
GatewayManifest ==
    \/ \E ciphertext \in GatewayManifests : ProxyManifest(ciphertext)
    \/ \E statusCode \in ManifestStatuses, location \in Locations :
          ManifestResponse(statusCode, location, GatewayNonce)
    \/ \E lines \in GatewayPlaylists : ManifestEnd(lines, GatewayNonce)
    \/ ManifestError
    \/ ManifestTimeout

\* the steps of the key proxy of the gateway
GatewayKey ==
    \/ \E ciphertext \in GatewayKeys : ProxyKey(ciphertext)
    \/ \E statusCode \in KeyStatuses : KeyResponse(statusCode)
    \/ KeyEnd
    \/ KeyError
    \/ KeyTimeout

\* an endpoint has served no request yet
SegmentUnused ==
    requests = EmptyMap /\ segmentCache = <<>> /\ segmentResponse = NoSegmentResponse

ManifestUnused == manifestRequest = NoManifestRequest

KeyUnused == keyRequest = NoKeyRequest

\* the whole gateway: the registry and the three proxy endpoints of one
\* process.  The endpoints share no state (the segment cache belongs to
\* proxySegment alone), so a behaviour exercises one of them against the
\* registry
GatewayNext ==
    \/ GatewayRegistry
    \/ ManifestUnused /\ KeyUnused /\ GatewaySegment
    \/ SegmentUnused /\ KeyUnused /\ GatewayManifest
    \/ SegmentUnused /\ ManifestUnused /\ GatewayKey

GatewaySpec == Init /\ [][GatewayNext]_vars

\* the steps of the segment proxy that decide what a request is answered:
\* one upstream request at a time, whose origin sends an empty body
AccessSegment ==
    \/ \E key \in GatewaySegments :
          (\A r \in DOMAIN requests : ~UpstreamOpen(r)) /\ ProxySegment(key)
    \/ \E r \in 1..MaxRequests, statusCode \in SegmentStatuses : UpstreamResponse(r, statusCode)
    \/ \E r \in 1..MaxRequests : UpstreamEnd(r)
    \/ \E r \in 1..MaxRequests : SegmentTimeout(r)

\* the registry against the requests to the proxy endpoints and the events
\* that answer them
AccessNext ==
    \/ GatewayRegistry
    \/ ManifestUnused /\ KeyUnused /\ AccessSegment
    \/ SegmentUnused /\ KeyUnused /\ GatewayManifest
    \/ SegmentUnused /\ ManifestUnused /\ GatewayKey

AccessSpec == Init /\ [][AccessNext]_vars

\* the registry with the viewers of one stream: tokens are issued and streams
\* stopped for both stream ids, viewers join the stream s1 only
StreamNext ==
    \/ \E s \in StreamIds, m \in ExpiryInputs : GenerateToken(s, m)
    \/ \E tok \in tokens : ValidateToken(tok, TRUE)
    \/ \E sid \in SessionIds : RegisterViewer("s1", sid)
    \/ \E sid \in SessionIds : RemoveViewer(sid)
    \/ \E s \in StreamIds : StopStream(s)
    \/ CleanupExpiredStreams
    \/ Tick

StreamSpec == Init /\ [][StreamNext]_vars

\* the registry and the segment proxy of one process, for one stream with
\* one-minute tokens, one viewer and one segment, and the restart of the
\* process
RestartNext ==
    \/ GenerateToken("s1", 1)
    \/ \E tok \in tokens : ValidateToken(tok, TRUE)
    \/ RegisterViewer("s1", "v1")
    \/ StopStream("s1")
    \/ Tick
    \/ ProxySegment("k1")
    \/ \E r \in 1..MaxRequests : UpstreamResponse(r, 200)
    \/ \E r \in 1..MaxRequests : UpstreamEnd(r)
    \/ Restart

RestartSpec == Init /\ [][RestartNext]_vars

KeyNext ==
    \/ \E ciphertext \in KeyCiphertexts : ProxyKey(ciphertext)
    \/ \E statusCode \in KeyStatuses : KeyResponse(statusCode)
    \/ KeyEnd
    \/ KeyError
    \/ KeyTimeout

KeySpec == Init /\ [][KeyNext]_vars

\* the origin and the timer do not stay silent for ever: while a manifest
\* request is open, one of its events (response, end, error, timeout) occurs
ManifestLiveSpec == ManifestSpec /\ WF_vars(ManifestNext)

----------------------------------------------------------------------------
(* Claims about the token service and the stream registry (under Spec)     *)

Expired(tok) == NowSec(now) >= tok.exp

\* the tokens that were issued for a stream before a successful stopStream of it
StoppedTokens == {t \in tokens : t.jti \in stoppedJtis}

Verify(tok) == validateToken(tok, TRUE, activeStreams, now)

\* C1 as stated: after a successful stopStream(s), validateToken of every token
\* issued for s before the stop fails, and only ever with 'Revoked' or
\* 'StreamStopped', also after the reaper has run.
C1_OnlyRevokedOrStopped ==
    \A t \in StoppedTokens :
        /\ ~Verify(t).valid
        /\ Verify(t).error \in {"Token has been revoked", "Stream has been stopped"}

\* C1 amended: after a successful stopStream(s), validateToken of every token
\* issued for s before the stop fails in every later state: with 'jwt expired'
\* once the token has expired, else with 'Stream not found or expired' once the
\* reaper has removed the record, else with 'Stream has been stopped' or
\* 'Token has been revoked'.
C1_StoppedTokensFail ==
    \A t \in StoppedTokens :
        /\ ~Verify(t).valid
        /\ Verify(t).error =
             IF Expired(t) THEN "jwt expired"
             ELSE IF t.streamId \notin DOMAIN activeStreams
                  THEN "Stream not found or expired"
             ELSE IF ~activeStreams[t.streamId].isActive
                  THEN "Stream has been stopped"
             ELSE "Token has been revoked"

\* C1 witness: a token stopped before its expiry whose record the reaper removed
C1_Witness ==
    \E t \in StoppedTokens :
        /\ ~Expired(t)
        /\ t.streamId \notin DOMAIN activeStreams
        /\ Verify(t).error = "Stream not found or expired"

\* C2: a token issued by generateToken for a stream id verifies Ok as soon as
\* generateToken returns (the record is active and carries the new token's
\* generation id), while every token issued for that stream before an earlier
\* stop still fails.
C2_FreshTokenAfterStop ==
    [][tokens' # tokens =>
        \A s \in StreamIds, m \in ExpiryInputs :
          GenerateToken(s, m) =>
            /\ validateToken(IssuedToken(s, m), TRUE, activeStreams', now').valid
            /\ activeStreams'[s].isActive
            /\ activeStreams'[s].tokenJti = IssuedToken(s, m).jti
            /\ \A t \in StoppedTokens :
                  ~validateToken(t, TRUE, activeStreams', now').valid]_vars

\* C2 witness: a stream that was stopped and issued again: its old token is
\* rejected as revoked and its new token verifies
C2_Witness ==
    \E s \in DOMAIN activeStreams : \E old \in StoppedTokens, new \in tokens :
        /\ old.streamId = s /\ new.streamId = s
        /\ new.jti \notin stoppedJtis
        /\ Verify(new).valid
        /\ Verify(old).error = "Token has been revoked"

\* C3: once stopStream(s) has returned success, the record is inactive and
\* its generation id differs from that of every token issued so far, and in no
\* later state (whatever calls, reaper runs and clock ticks come between) does
\* validateToken accept a token issued for s before that stop.
C3_StopInEffect ==
    /\ [](\A t \in StoppedTokens : ~Verify(t).valid)
    /\ [][(nextUuid' # nextUuid /\ tokens' = tokens) =>
            \A s \in DOMAIN activeStreams :
              StopStream(s) =>
                 /\ ~activeStreams'[s].isActive
                 /\ \A t \in tokens : t.jti # activeStreams'[s].tokenJti
                 /\ \A t \in tokens : t.streamId = s => t.jti \in stoppedJtis']_vars

\* C3 witness: a stopped stream still in the registry and an unexpired token
\* issued for it before the stop
C3_Witness ==
    \E t \in StoppedTokens :
        /\ ~Expired(t)
        /\ t.streamId \in DOMAIN activeStreams
        /\ ~activeStreams[t.streamId].isActive
        /\ ~Verify(t).valid

\* C4: every stream record has viewerCount <= maxViewers, and a registerViewer
\* call made when viewerCount = maxViewers throws 'Maximum viewer limit reached'
\* and leaves the stream records and the session map unchanged.
C4_Capacity ==
    /\ [](\A s \in DOMAIN activeStreams :
            /\ activeStreams[s].viewerCount <= activeStreams[s].maxViewers
            /\ activeStreams[s].viewerCount = activeStreams[s].maxViewers =>
                 registerViewerResult(activeStreams, s) = "Maximum viewer limit reached")
    /\ [][(activeStreams' # activeStreams \/ viewerSessions' # viewerSessions) =>
            \A s \in DOMAIN activeStreams, sid \in SessionIds :
               activeStreams[s].viewerCount = activeStreams[s].maxViewers =>
                  ~RegisterViewer(s, sid)]_vars

\* C4 witness: a stream filled to its ceiling, where the next join is refused
C4_Witness ==
    \E s \in DOMAIN activeStreams :
        /\ activeStreams[s].viewerCount = activeStreams[s].maxViewers
        /\ registerViewerResult(activeStreams, s) = "Maximum viewer limit reached"

\* C5: whatever registerViewer and removeViewer calls were made (unknown and
\* repeated session ids included), every stream record has viewerCount >= 0.
C5_NonNegative ==
    \A s \in DOMAIN activeStreams : activeStreams[s].viewerCount >= 0

\* C5 witness: a stream whose count is zero although a session of it is still
\* stored (the stream id was issued again), and a session id that is unknown:
\* removeViewer of the stored session meets the floor
C5_Witness ==
    /\ \E sid \in SessionIds : sid \notin DOMAIN viewerSessions
    /\ \E sid \in DOMAIN viewerSessions :
          /\ viewerSessions[sid].streamId \in DOMAIN activeStreams
          /\ activeStreams[viewerSessions[sid].streamId].viewerCount = 0

\* C11: for every issued token that is not expired, validateToken (signature
\* valid) answers 'Stream not found or expired' when its stream has no record,
\* else 'Stream has been stopped' when the record is inactive, else 'Token has
\* been revoked' when the generation ids differ, else valid: each answer is
\* given exactly when no earlier check applies.
C11_Precedence ==
    \A t \in tokens : ~Expired(t) =>
        LET s == t.streamId
            r == Verify(t)
            gone == s \notin DOMAIN activeStreams
        IN /\ gone => (~r.valid /\ r.error = "Stream not found or expired")
           /\ (~gone /\ ~activeStreams[s].isActive) =>
                 (~r.valid /\ r.error = "Stream has been stopped")
           /\ (~gone /\ activeStreams[s].isActive /\ t.jti # activeStreams[s].tokenJti) =>
                 (~r.valid /\ r.error = "Token has been revoked")
           /\ (~gone /\ activeStreams[s].isActive /\ t.jti = activeStreams[s].tokenJti) =>
                 r.valid

\* C11 witness: an unexpired token whose record is both inactive and of another
\* generation id: the stopped answer wins over the revoked one
C11_Witness ==
    \E t \in tokens :
        /\ ~Expired(t)
        /\ t.streamId \in DOMAIN activeStreams
        /\ ~activeStreams[t.streamId].isActive
        /\ t.jti # activeStreams[t.streamId].tokenJti
        /\ Verify(t).error = "Stream has been stopped"

\* C12: validateToken of a genuine token at or after its expiry answers 'jwt
\* expired' whatever the registry holds for its stream (a live record, a
\* stopped record, or none after the reaper): the expiry is checked before the
\* record lookup.
C12_ExpiredFirst ==
    \A t \in tokens : Expired(t) =>
        /\ ~Verify(t).valid
        /\ Verify(t).error = "jwt expired"

\* C12 witness: an expired token whose record the reaper has removed, next to
\* an expired token whose record is still stored and stopped
C12_Witness ==
    /\ \E t \in tokens : Expired(t) /\ t.streamId \notin DOMAIN activeStreams
    /\ \E t \in tokens :
          /\ Expired(t)
          /\ t.streamId \in DOMAIN activeStreams
          /\ ~activeStreams[t.streamId].isActive

C14_StopNotFound ==
    /\ [](\A s \in StreamIds \ DOMAIN activeStreams :
            stopStreamResult(activeStreams, s) =
               [success |-> FALSE, message |-> "Stream not found"])
    /\ [][\A s \in StreamIds \ DOMAIN activeStreams :
            StopStream(s) => UNCHANGED <<activeStreams, viewerSessions>>]_vars

\* C14 witness: a stream id without a record while another stream has a record
\* and a viewer session
C14_Witness ==
    /\ StreamIds \ DOMAIN activeStreams # {}
    /\ DOMAIN activeStreams # {}
    /\ DOMAIN viewerSessions # {}
    /\ \E s \in StreamIds \ DOMAIN activeStreams :
          ~stopStreamResult(activeStreams, s).success

\* a stream record that stopStream has touched: its generation id is a uuid
\* that no token was issued with
ExplicitlyStopped(s) == \A t \in tokens : t.jti # activeStreams[s].tokenJti

\* C15: every stored stream record that was explicitly stopped, or whose
\* expiresAt is at or before the current time, has isActive false.
C15_InactiveOnceStoppedOrExpired ==
    \A s \in DOMAIN activeStreams :
        (ExplicitlyStopped(s) \/ activeStreams[s].expiresAt <= now) =>
            ~activeStreams[s].isActive

\* C16: the streamId of every stored viewer session is the key of a stored
\* stream record.
C16_SessionsReferToRecords ==
    \A sid \in DOMAIN viewerSessions :
        viewerSessions[sid].streamId \in DOMAIN activeStreams

\* C16 witness: a stream that was issued a token has no record any more (the
\* reaper removed it) and holds no session, while a session of another stream
\* is stored
C16_Witness ==
    /\ \E t \in tokens :
          /\ t.streamId \notin DOMAIN activeStreams
          /\ \A sid \in DOMAIN viewerSessions : viewerSessions[sid].streamId # t.streamId
    /\ \E sid \in DOMAIN viewerSessions :
          viewerSessions[sid].streamId \in DOMAIN activeStreams

\* C17: a run of cleanupExpiredStreams at time now removes exactly the records
\* with expiresAt < now or isActive false, and exactly the sessions whose
\* streamId is one of those; it returns the number of removed records, and
\* every other record and session stays as it was.
C17_ReaperExact ==
    [][(activeStreams' # activeStreams \/ viewerSessions' # viewerSessions) =>
         (CleanupExpiredStreams =>
            LET removed == {s \in DOMAIN activeStreams :
                              activeStreams[s].expiresAt < now \/ ~activeStreams[s].isActive}
            IN /\ DOMAIN activeStreams' = DOMAIN activeStreams \ removed
               /\ \A s \in DOMAIN activeStreams' : activeStreams'[s] = activeStreams[s]
               /\ DOMAIN viewerSessions' =
                     {sid \in DOMAIN viewerSessions : viewerSessions[sid].streamId \notin removed}
               /\ \A sid \in DOMAIN viewerSessions' : viewerSessions'[sid] = viewerSessions[sid]
               /\ cleanedCount(activeStreams, now) =
                     Cardinality(DOMAIN activeStreams) - Cardinality(DOMAIN activeStreams'))]_vars

\* C17 witness: one stream was reaped while the record of another, live and
\* exactly at its expiry instant, and its session were kept
C17_Witness ==
    /\ \E t \in tokens : t.streamId \notin DOMAIN activeStreams
    /\ \E sid \in DOMAIN viewerSessions :
          LET s == viewerSessions[sid].streamId IN
          /\ s \in DOMAIN activeStreams
          /\ activeStreams[s].isActive
          /\ activeStreams[s].expiresAt = now
          /\ cleanedCount(activeStreams, now) = 0

\* C26: a step of generateToken, validateToken, stopStream, registerViewer
\* or removeViewer removes no stream id from the registry (getStreamStats is
\* a function of the registry and has no step): a step that removes one is a
\* step of cleanupExpiredStreams and of none of them.
C26_OnlyReaperRemoves ==
    [][(DOMAIN activeStreams \ DOMAIN activeStreams' # {}) =>
         /\ CleanupExpiredStreams
         /\ ~\E st \in StreamIds, m \in ExpiryInputs : GenerateToken(st, m)
         /\ ~\E tok \in tokens, sigOk \in BOOLEAN : ValidateToken(tok, sigOk)
         /\ ~\E st \in StreamIds : StopStream(st)
         /\ ~\E st \in StreamIds, sid \in SessionIds : RegisterViewer(st, sid)
         /\ ~\E sid \in SessionIds : RemoveViewer(sid)]_vars

\* C26 witness: generateToken, registerViewer and stopStream have acted and
\* both stream ids are registered: an active stream whose tokens all carry its
\* generation id, next to a stopped stream that holds a viewer session
C26_Witness ==
    \E a, b \in DOMAIN activeStreams :
        /\ activeStreams[a].isActive
        /\ activeStreams[a].viewerCount = 0
        /\ \A t \in tokens : t.streamId = a => t.jti = activeStreams[a].tokenJti
        /\ ~activeStreams[b].isActive
        /\ \E sid \in DOMAIN viewerSessions : viewerSessions[sid].streamId = b

\* C27: removeViewer of an unknown session id changes nothing; removeViewer
\* of a known one deletes that session, lowers the viewerCount of its stream
\* by one (not below zero) and leaves every other session, every other field
\* of that record and every other record as they were.
C27_RemoveViewerFrame ==
    /\ [](\A sid \in SessionIds \ DOMAIN viewerSessions :
            removeViewer(activeStreams, viewerSessions, sid) =
               [streams |-> activeStreams, sessions |-> viewerSessions])
    /\ [][viewerSessions' # viewerSessions =>
            \A sid \in DOMAIN viewerSessions :
              RemoveViewer(sid) =>
                 LET s == viewerSessions[sid].streamId IN
                 /\ DOMAIN viewerSessions' = DOMAIN viewerSessions \ {sid}
                 /\ \A o \in DOMAIN viewerSessions' : viewerSessions'[o] = viewerSessions[o]
                 /\ DOMAIN activeStreams' = DOMAIN activeStreams
                 /\ \A x \in DOMAIN activeStreams :
                       IF x = s
                       THEN activeStreams'[x] =
                              [activeStreams[x] EXCEPT !.viewerCount =
                                  IF @ >= 1 THEN @ - 1 ELSE 0]
                       ELSE activeStreams'[x] = activeStreams[x]]_vars

\* C27 witness: two streams that count one viewer each, with one session
\* each: removing either session must leave the other stream and session alone
C27_Witness ==
    /\ DOMAIN viewerSessions = SessionIds
    /\ \A s \in StreamIds :
          /\ s \in DOMAIN activeStreams
          /\ activeStreams[s].viewerCount = 1
          /\ \E sid \in SessionIds : viewerSessions[sid].streamId = s

\* the stored viewer sessions of stream s
SessionsOf(s) == {sid \in DOMAIN viewerSessions : viewerSessions[sid].streamId = s}

\* C36: in every reachable state the viewerCount of every registered stream
\* is the number of stored viewer sessions of that stream.
C36_CountIsSessions ==
    \A s \in DOMAIN activeStreams :
        activeStreams[s].viewerCount = Cardinality(SessionsOf(s))

\* the tokens after which generateToken was called again for their stream
\* (uuids are drawn in increasing order)
SupersededTokens ==
    {t \in tokens : \E u \in tokens : u.streamId = t.streamId /\ u.jti > t.jti}

\* the streams stopStream has stopped at some time
EverStopped == {t.streamId : t \in StoppedTokens}

\* C37 as stated: when generateToken was called twice for a stream id that was
\* never stopped, every earlier token of the stream fails with 'Revoked'.
C37_EarlierRevoked ==
    \A t \in SupersededTokens :
        t.streamId \notin EverStopped =>
            /\ ~Verify(t).valid
            /\ Verify(t).error = "Token has been revoked"

\* C37 amended: at most one token per stream id verifies Ok, and a token after
\* which generateToken was called again for its stream never does, stopStream
\* or not: it fails with 'jwt expired' once it has expired, else with 'Stream
\* not found or expired' once the reaper has removed the record, else with
\* 'Stream has been stopped' if the stream was stopped since, else with
\* 'Token has been revoked'.
C37_OneGeneration ==
    /\ \A s \in StreamIds :
          Cardinality({t \in tokens : t.streamId = s /\ Verify(t).valid}) <= 1
    /\ \A t \in SupersededTokens :
          LET v == Verify(t) IN
          /\ ~v.valid
          /\ v.error =
               IF Expired(t) THEN "jwt expired"
               ELSE IF t.streamId \notin DOMAIN activeStreams
                    THEN "Stream not found or expired"
               ELSE IF ~activeStreams[t.streamId].isActive
                    THEN "Stream has been stopped"
               ELSE "Token has been revoked"

\* C37 witness: two unexpired tokens of a stream that was never stopped; the
\* later one verifies Ok and the earlier one is revoked
C37_Witness ==
    \E t \in SupersededTokens, u \in tokens :
        /\ u.streamId = t.streamId
        /\ t.streamId \notin EverStopped
        /\ ~Expired(t)
        /\ Verify(u).valid
        /\ Verify(t).error = "Token has been revoked"

\* C38: a token verifies Ok in every state from its issue until its expiry
\* unless its stream was stopped or issued again since, whatever viewers
\* joined or left and whenever the reaper ran; and the expiry of the token a
\* record was stored with is never later than the record's expiresAt.
C38_ValidUntilExpiry ==
    /\ \A t \in tokens \ SupersededTokens :
          (t.jti \notin stoppedJtis /\ ~Expired(t)) => Verify(t).valid
    /\ \A t \in tokens :
          (t.streamId \in DOMAIN activeStreams
             /\ activeStreams[t.streamId].tokenJti = t.jti) =>
                t.exp * MsPerSec <= activeStreams[t.streamId].expiresAt

\* C38 witness: a token at the last instant before its expiry that verifies
\* Ok, with a viewer session stored for its stream, after the reaper has
\* removed the record of another stream
C38_Witness ==
    \E t \in tokens, u \in tokens :
        /\ Verify(t).valid
        /\ NowSec(now + 1) >= t.exp
        /\ SessionsOf(t.streamId) # {}
        /\ u.streamId # t.streamId
        /\ u.streamId \notin DOMAIN activeStreams

\* C39: registerViewer succeeds exactly when the stream id has a record whose
\* viewerCount is below its maxViewers, whether the record is active or
\* stopped, expired or not; it fails with 'Stream not found' for an unknown id
\* and with 'Maximum viewer limit reached' for a full stream, and in no other
\* way; a step that stores a session or raises a count is one of a stream
\* that had a record with room.
C39_JoinRule ==
    /\ [](\A s \in StreamIds :
            registerViewerResult(activeStreams, s) =
               IF s \notin DOMAIN activeStreams THEN "Stream not found"
               ELSE IF activeStreams[s].viewerCount < activeStreams[s].maxViewers THEN "ok"
               ELSE "Maximum viewer limit reached")
    /\ [][\A s \in DOMAIN activeStreams \cap DOMAIN activeStreams' :
             activeStreams'[s].viewerCount > activeStreams[s].viewerCount =>
                /\ activeStreams[s].viewerCount < activeStreams[s].maxViewers
                /\ activeStreams'[s] =
                      [activeStreams[s] EXCEPT !.viewerCount = @ + 1]
                /\ \E sid \in SessionIds :
                      /\ sid \in DOMAIN viewerSessions'
                      /\ viewerSessions'[sid].streamId = s]_vars

\* C39 witness: a stopped stream past its expiresAt that the reaper has not
\* removed yet holds a viewer session and has room for another viewer
C39_Witness ==
    \E s \in DOMAIN activeStreams :
        /\ ~activeStreams[s].isActive
        /\ activeStreams[s].expiresAt < now
        /\ SessionsOf(s) # {}
        /\ registerViewerResult(activeStreams, s) = "ok"

----------------------------------------------------------------------------
(* Claims about a restart of the process (under RestartSpec)               *)

\* C25: a restart leaves the stream registry, the session map and the segment
\* cache empty, and from then on validateToken fails for every token issued
\* before the restart, whatever is registered afterwards.
C25_RestartForgets ==
    /\ [](\A tok \in lastRestart.tokens, sigOk \in BOOLEAN :
             ~validateToken(tok, sigOk, activeStreams, now).valid)
    /\ [][lastRestart' # lastRestart =>
             /\ activeStreams' = EmptyMap
             /\ viewerSessions' = EmptyMap
             /\ segmentCache' = <<>>
             /\ currentCacheSize' = 0]_vars

\* C25 witness: the process was restarted while it held a stream record and a
\* cached segment, the stream has been registered again since, and a token
\* issued before the restart, genuine and unexpired, is presented
C25_Witness ==
    /\ lastRestart.streams # {}
    /\ lastRestart.cached > 0
    /\ \E tok \in lastRestart.tokens :
          /\ JwtVerify(tok, TRUE, now) = "ok"
          /\ tok.streamId \in DOMAIN activeStreams
          /\ activeStreams[tok.streamId].isActive

----------------------------------------------------------------------------
(* Claims about the segment cache (under CacheSpec)                        *)

\* C6: after any sequence of cacheSegment calls the byte lengths of the
\* resident entries add up to at most CACHE_MAX_SIZE, also when one payload is
\* larger than the ceiling.
C6_CacheBound == SumSizes(segmentCache) <= CACHE_MAX_SIZE

\* C7: the running counter currentCacheSize equals the sum of the byte lengths
\* of the resident entries, also after a put on a key that is already resident.
C7_ExactAccounting == currentCacheSize = SumSizes(segmentCache)

\* the entry of key is resident and its age does not exceed the freshness
\* window
WithinFreshness(key) ==
    /\ CacheHas(segmentCache, key)
    /\ now - CacheGet(segmentCache, key).timestamp <= SEGMENT_TTL

\* C22: a segment request is answered from the cache exactly when an entry of
\* its key is resident and at most SEGMENT_TTL old: no request whose entry is
\* that fresh goes upstream, and no other one is answered from the cache.
C22_HitRule ==
    [][/\ \A r \in DOMAIN requests' \ DOMAIN requests :
             ~WithinFreshness(requests'[r].key)
       /\ (segmentResponse' # segmentResponse /\ segmentResponse'.status = 200
             /\ segmentResponse'.source = "cache") =>
             WithinFreshness(segmentResponse'.key)]_vars

\* C24: every successful segment response carries Content-Type video/mp2t and
\* an X-Cache header that is HIT exactly when its bytes came from the cache
\* and MISS exactly when they came from the origin.
C24_SegmentHeaders ==
    (segmentResponse.status = 200 /\ segmentResponse.ended) =>
        /\ segmentResponse.headers.contentType = "video/mp2t"
        /\ segmentResponse.headers.xCache = "HIT" <=> segmentResponse.source = "cache"
        /\ segmentResponse.headers.xCache = "MISS" <=> segmentResponse.source = "origin"

\* the request whose 'end' handler ran in this step, if any
EndedRequests ==
    {r \in DOMAIN requests \ DOMAIN requests' :
        /\ requests[r].phase = "relay"
        /\ segmentResponse' =
              SegmentResponse(requests[r].key, 200, MissHeaders, "origin", TRUE)
        /\ <<segmentCache, currentCacheSize>>' # <<segmentCache, currentCacheSize>>}

\* C30: the entries a cacheSegment call evicts are older, by their insertion
\* timestamps, than every entry it leaves resident, also after a key was put
\* again while resident; and a cache hit leaves the cache as it is.
C30_EvictOldest ==
    [][/\ \A r \in EndedRequests :
             LET kept == Evict(segmentCache, currentCacheSize,
                               SumSeq(requests[r].chunks)).cache
                 n == Len(segmentCache) - Len(kept)
             IN \A i \in 1..n, j \in (n + 1)..Len(segmentCache) :
                   segmentCache[i].timestamp <= segmentCache[j].timestamp
       /\ (segmentResponse' # segmentResponse /\ segmentResponse'.status = 200
             /\ segmentResponse'.source = "cache") =>
             segmentCache' = segmentCache]_vars

----------------------------------------------------------------------------
(* Claims about the URL cipher (under CipherSpec)                          *)

\* C8: for every URL u and every nonce encryptUrl may draw, decryptUrl of the
\* string encryptUrl(u) returned succeeds and returns u.
C8_RoundTrip ==
    (handling = "pristine" /\ revealed # <<>>) =>
        /\ revealed[1].ok
        /\ revealed[1].url = plainUrl

\* C8 witness: a URL with a character of each UTF-8 length was encrypted and
\* decryptUrl gave it back.
C8_Witness ==
    /\ handling = "pristine"
    /\ revealed # <<>>
    /\ revealed[1].ok
    /\ revealed[1].url = plainUrl
    /\ Len(plainUrl) = MaxUrlLen
    /\ \E i \in 1..Len(plainUrl) : plainUrl[i] >= 128

\* C9: whenever the tag field or the payload field of a ciphertext encryptUrl
\* produced has been changed, decryptUrl fails with the tamper error and
\* reveals no URL.
C9_TamperDetected ==
    (handling \in {"tag", "payload"} /\ revealed # <<>>) => revealed[1] = TamperError

\* C10: decryptUrl fails with the tamper error on every input that is not
\* exactly three ':'-delimited fields, with fields missing or with further
\* fields after a valid triple.
C10_MalformedRejected ==
    (revealed # <<>> /\ Len(Split(encryptedUrl)) # 3) => revealed[1] = TamperError

----------------------------------------------------------------------------
(* Claims about the manifest proxy (under ManifestSpec)                    *)

\* a manifest has been sent to the client with status 200
ManifestSent == manifestRequest.phase = "done" /\ manifestRequest.status = 200

\* the endpoint part of the proxy URL a playlist line is to be rewritten to, by
\* the class of its reference (key URI, variant playlist, media segment, init
\* segment), <<>> for a line that is none of them
LineEndpoint(line) ==
    LET t == Trim(line) IN
    IF StartsWith(t, KeyTag) /\ UriMatch(t) # <<>> THEN KeyEndpoint
    ELSE IF t = <<>> \/ StartsWith(t, CommentMark) THEN <<>>
    ELSE IF EndsWith(t, ExtM3u8) THEN ManifestEndpoint
    ELSE IF EndsWith(t, ExtTs) \/ Includes(t, ExtTsQuery) THEN SegmentEndpoint
    ELSE IF EndsWith(t, ExtMp4) \/ EndsWith(t, ExtM4s) THEN SegmentEndpoint
    ELSE <<>>

\* the URI reference of such a line
LineUri(line) ==
    IF LineEndpoint(line) = KeyEndpoint THEN UriMatch(Trim(line)) ELSE Trim(line)

\* the URL that stands for the reference in the emitted line
EmittedUrl(line, out) ==
    IF LineEndpoint(line) = KeyEndpoint THEN UriMatch(out) ELSE out

\* the query value of an emitted proxy URL
UrlParam(u, endpoint) ==
    SubSeq(u, Len(ProxyBaseUrl) + Len(endpoint) + 1, Len(u))

\* u is <proxyBase><endpoint><urlencoded ciphertext> and the ciphertext
\* decrypts to target
ProxyUrlFor(u, endpoint, target) ==
    /\ StartsWith(u, ProxyBaseUrl \o endpoint)
    /\ LET q == UrlParam(u, endpoint)
           c == decodeQueryValue(q)
           d == decryptUrl(c)
       IN /\ encodeURIComponent(c) = q
          /\ d.ok
          /\ d.url = ToCodePoints(target)

\* C18: in every manifest sent with status 200, each line whose source line is
\* a key tag with a URI, a variant playlist, a media segment or an init segment
\* carries a URL <proxyBase>/<endpoint>?url=<urlencoded ciphertext>, with
\* endpoint key, manifest, segment, segment in that order, whose ciphertext
\* decrypts to the source line's URI resolved against the playlist's base URL.
C18_RewriteCorrect ==
    ManifestSent =>
        \A i \in 1..Len(manifestRequest.origin) :
            LET line == manifestRequest.origin[i]
                out == manifestRequest.body[i]
            IN LineEndpoint(line) # <<>> =>
                  ProxyUrlFor(EmittedUrl(line, out), LineEndpoint(line),
                              UrlResolve(manifestRequest.originalUrl, LineUri(line)))

\* C18 witness: a manifest sent with status 200 whose playlist had a key tag
\* and a rooted init segment, both rewritten
C18_Witness ==
    /\ ManifestSent
    /\ \E i, j \in 1..Len(manifestRequest.origin) :
          /\ LineEndpoint(manifestRequest.origin[i]) = KeyEndpoint
          /\ manifestRequest.body[i] # manifestRequest.origin[i]
          /\ LineEndpoint(manifestRequest.origin[j]) = SegmentEndpoint
          /\ manifestRequest.origin[j][1] = "/"
          /\ StartsWith(manifestRequest.body[j], ProxyBaseUrl)

\* C19: in every manifest sent with status 200, every URI reference points at
\* the proxy: each URI line and each URI attribute of a tag starts with the
\* proxy base URL.
C19_OnlyProxyUrls ==
    ManifestSent =>
        \A i \in 1..Len(manifestRequest.body) :
            LET t == Trim(manifestRequest.body[i]) IN
            /\ (t # <<>> /\ ~StartsWith(t, CommentMark)) => StartsWith(t, ProxyBaseUrl)
            /\ (StartsWith(t, CommentMark) /\ UriMatch(t) # <<>>) =>
                  StartsWith(UriMatch(t), ProxyBaseUrl)

\* C20: when the origin answered a manifest request with a 3xx and a Location
\* header, every rewritten reference of the manifest finally sent with status
\* 200 decrypts to its URI resolved against the redirect target (the Location
\* resolved against the requested URL).
C20_RedirectBase ==
    (ManifestSent /\ manifestRequest.redirectedTo # <<>>) =>
        \A i \in 1..Len(manifestRequest.origin) :
            LET line == manifestRequest.origin[i]
                out == manifestRequest.body[i]
            IN LineEndpoint(line) # <<>> =>
                  decryptUrl(decodeQueryValue(
                      UrlParam(EmittedUrl(line, out), LineEndpoint(line)))).url
                    = ToCodePoints(UrlResolve(manifestRequest.redirectedTo, LineUri(line)))

\* C20 witness: a manifest sent with status 200 after a redirect, with a
\* rewritten reference that resolves differently against the requested URL
C20_Witness ==
    /\ ManifestSent
    /\ manifestRequest.redirectedTo # <<>>
    /\ manifestRequest.redirectedTo # manifestRequest.requestUrl
    /\ \E i \in 1..Len(manifestRequest.origin) :
          LET line == manifestRequest.origin[i] IN
          /\ LineEndpoint(line) = ManifestEndpoint
          /\ UrlResolve(manifestRequest.redirectedTo, LineUri(line))
                # UrlResolve(manifestRequest.requestUrl, LineUri(line))
          /\ manifestRequest.body[i] # line

\* the rules of the per-line algorithm, in their order: 1 blank or a comment
\* other than the key tag, 2 key tag with a URI attribute, 3 ends with .m3u8,
\* 4 ends with .ts or contains '.ts?', 5 ends with .mp4 or .m4s, 6 anything
MatchesRule(line, k) ==
    LET t == Trim(line) IN
    CASE k = 1 -> t = <<>> \/ (StartsWith(t, CommentMark) /\ ~StartsWith(t, KeyTag))
      [] k = 2 -> StartsWith(t, KeyTag) /\ UriMatch(t) # <<>>
      [] k = 3 -> EndsWith(t, ExtM3u8)
      [] k = 4 -> EndsWith(t, ExtTs) \/ Includes(t, ExtTsQuery)
      [] k = 5 -> EndsWith(t, ExtMp4) \/ EndsWith(t, ExtM4s)
      [] OTHER -> TRUE

\* the earliest rule a line matches
FirstRule(line) ==
    CHOOSE k \in 1..6 : MatchesRule(line, k) /\ \A j \in 1..(k - 1) : ~MatchesRule(line, j)

\* out is what rule k makes of line: the line itself (1, 6), the line with
\* its URI replaced by a key proxy URL (2), a manifest proxy URL (3), a
\* segment proxy URL (4, 5)
RoutedBy(line, out, k) ==
    CASE k = 2 -> out # line /\ StartsWith(UriMatch(out), ProxyBaseUrl \o KeyEndpoint)
      [] k = 3 -> StartsWith(out, ProxyBaseUrl \o ManifestEndpoint)
      [] k \in {4, 5} -> StartsWith(out, ProxyBaseUrl \o SegmentEndpoint)
      [] OTHER -> out = line

\* C28: in every manifest sent with status 200, each line is what the
\* earliest rule its source line matches makes of it, in the order blank or
\* non-key comment, key tag with URI, .m3u8, .ts or '.ts?', .mp4 or .m4s,
\* anything else; later rules the line also matches have no effect.
C28_FirstRuleWins ==
    ManifestSent =>
        \A i \in 1..Len(manifestRequest.origin) :
            RoutedBy(manifestRequest.origin[i], manifestRequest.body[i],
                     FirstRule(manifestRequest.origin[i]))

\* C28 witness: a manifest sent with status 200 that had a line ending in
\* .m3u8 and containing '.ts?', emitted as a manifest proxy URL
C28_Witness ==
    /\ ManifestSent
    /\ \E i \in 1..Len(manifestRequest.origin) :
          /\ MatchesRule(manifestRequest.origin[i], 3)
          /\ MatchesRule(manifestRequest.origin[i], 4)
          /\ StartsWith(manifestRequest.body[i], ProxyBaseUrl \o ManifestEndpoint)

\* a line no rule rewrites: blank, a comment other than the key tag, or a
\* line matching none of the rules 2 to 5
NotRewritten(line) == FirstRule(line) \in {1, 6}

\* C29: the manifest sent with status 200 has as many lines as the origin's
\* playlist, and every line of the playlist that is blank, a comment other
\* than the key tag, or matches no rewrite rule stands unchanged, character
\* for character, at the same line number of the manifest sent.
C29_LinesKept ==
    ManifestSent =>
        LET lines == SplitLines(JoinLines(manifestRequest.origin))
            sent == SplitLines(JoinLines(manifestRequest.body))
        IN /\ Len(sent) = Len(lines)
           /\ \A i \in 1..Len(lines) : NotRewritten(lines[i]) => sent[i] = lines[i]

\* C29 witness: a manifest of two lines sent with status 200 whose first line
\* was rewritten and whose second line, a padded comment, is unchanged
C29_Witness ==
    /\ ManifestSent
    /\ Len(manifestRequest.origin) = 2
    /\ ~NotRewritten(manifestRequest.origin[1])
    /\ manifestRequest.body[1] # manifestRequest.origin[1]
    /\ NotRewritten(manifestRequest.origin[2])
    /\ Trim(manifestRequest.origin[2]) # manifestRequest.origin[2]
    /\ manifestRequest.body[2] = manifestRequest.origin[2]

\* C21: every manifest request that went upstream is answered: whatever the
\* origin does, a response is eventually sent to the client (under
\* ManifestLiveSpec).
C21_RedirectsEnd ==
    (manifestRequest.phase = "upstream") ~> (manifestRequest.phase = "done")

----------------------------------------------------------------------------
(* Claims about the key proxy (under KeySpec)                              *)

\* C23: once the upstream request of a key fetch has timed out with nothing
\* sent to the client, the upstream request is destroyed and the client has
\* been answered 504.
C23_TimeoutAnswered ==
    (keyRequest.phase # "idle" /\ keyRequest.timedOut /\ keyRequest.status # 200) =>
        /\ keyRequest.phase = "done"
        /\ keyRequest.status = 504
        /\ keyRequest.destroyed

----------------------------------------------------------------------------
(* Claims about the segment relay (under RelaySpec)                        *)

\* the upstream fetch of request r stops in this step: the request is ended
\* or its client response is given up
FetchStops(r) ==
    /\ UpstreamOpen(r)
    /\ r \notin DOMAIN requests' \/ requests'[r].phase = "abandoned"

\* the fetch of request r ends successfully in this step: the origin's answer
\* ended after a status 200 and the client response was ended
FetchSucceeds(r) ==
    /\ FetchStops(r)
    /\ requests[r].phase = "relay"
    /\ segmentResponse'.status = 200
    /\ segmentResponse'.ended
    /\ segmentResponse'.key = requests[r].key

C34_StartedRelayEnds ==
    \A r \in 1..MaxRequests :
        (r \in DOMAIN requests /\ HeadersSent(requests[r])) ~>
            (r \notin DOMAIN requests)

----------------------------------------------------------------------------
(* Claims about the callbacks of the manifest proxy (under ManifestSpec)   *)

\* C35: whatever the order of the upstream callbacks of a manifest request,
\* its handlers call res.status(.).json / .send at most once: no handler
\* sends after another has answered the client.
C35_OneResponse ==
    manifestRequest.phase # "idle" => manifestRequest.sendCalls <= 1

----------------------------------------------------------------------------
(* Claims about the gateway as a whole (under GatewaySpec)                 *)

\* the ciphertexts sent to the gateway, each with what decryptUrl makes of it
ManifestInputs == {<<c, decryptUrl(c)>> : c \in GatewayManifests}

KeyInputs == {<<c, decryptUrl(c)>> : c \in GatewayKeys}

\* those of them that do not pass decryptUrl
BadManifests == {in[1] : in \in {i \in ManifestInputs : ~i[2].ok}}

BadKeys == {in[1] : in \in {i \in KeyInputs : ~i[2].ok}}

\* C32, in every state: no segment request is in flight and no segment is
\* cached for a ciphertext that does not decrypt, the last segment response
\* for such a ciphertext is an ended 500 without bytes, and a key request for
\* such a ciphertext was answered 500 without a fetch.
C32_NothingForBad ==
    /\ \A r \in DOMAIN requests : Decryptable(requests[r].key)
    /\ \A i \in 1..Len(segmentCache) : Decryptable(segmentCache[i].key)
    /\ (segmentResponse # NoSegmentResponse /\ ~Decryptable(segmentResponse.key)) =>
          /\ segmentResponse.status = 500
          /\ segmentResponse.source = ""
          /\ segmentResponse.ended
    /\ (keyRequest # NoKeyRequest /\ keyRequest.encryptedUrl \in BadKeys) =>
          /\ keyRequest.phase = "done"
          /\ keyRequest.status = 500
          /\ keyRequest.originalUrl = <<>>

\* C32, in every step: a manifest, segment or key request whose ciphertext
\* does not decrypt is answered 500 in the step that receives it, opens no
\* upstream request and leaves the cache and the registry unchanged; the
\* answered manifest request is not taken up again.
C32_BadStep ==
    /\ \A c \in BadManifests :
          (manifestRequest' # manifestRequest /\ ProxyManifest(c)) =>
              /\ manifestRequest'.phase = "done"
              /\ manifestRequest'.status = 500
              /\ manifestRequest'.body = <<>>
              /\ manifestRequest'.sendCalls = 1
              /\ UNCHANGED <<regVars, cacheVars>>
    /\ \A c \in BadKeys :
          (keyRequest' # keyRequest /\ ProxyKey(c)) =>
              /\ keyRequest'.phase = "done"
              /\ UNCHANGED <<regVars, cacheVars>>
    /\ (segmentResponse' # segmentResponse /\ ~Decryptable(segmentResponse'.key)) =>
          /\ requests' = requests
          /\ UNCHANGED <<regVars, segmentCache, currentCacheSize>>
    /\ (manifestRequest # NoManifestRequest /\ manifestRequest.status = 500) =>
          UNCHANGED manifestRequest
    /\ (keyRequest # NoKeyRequest /\ keyRequest.status = 500) =>
          UNCHANGED keyRequest

\* C32: a request whose ciphertext fails decryptUrl ends with an error
\* response, issues no upstream request, is not retried and changes neither
\* the cache nor the registry; no bytes are served for such a ciphertext.
C32_BadCiphertext == []C32_NothingForBad /\ [][C32_BadStep]_vars

\* C32 witness: with a stream registered and a segment cached, the segment
\* proxy has just answered 500 to a ciphertext that does not decrypt
C32_Witness ==
    /\ "s1" \in DOMAIN activeStreams
    /\ segmentCache # <<>>
    /\ segmentResponse # NoSegmentResponse
    /\ ~Decryptable(segmentResponse.key)
    /\ segmentResponse.status = 500

\* a 3xx status that proxyManifest follows: it comes with a Location header
Followed(statusCode, location) ==
    statusCode >= 300 /\ statusCode < 400 /\ location # <<>>

\* C33, in every state: a key request whose origin answered another status
\* than 200 was answered 502, and nothing was piped.
C33_KeyRefused ==
    (keyRequest # NoKeyRequest /\ keyRequest.upstream \notin {0, 200}) =>
        /\ keyRequest.phase = "done"
        /\ keyRequest.status = 502

\* C33, in every step: a segment response of the origin with another status
\* than 200 (a 3xx included) is answered with an ended 502 without bytes, the
\* request is over and the cache unchanged; a manifest response with another
\* status than 200 that is no 3xx with a Location is answered 502 without a
\* body.
C33_RefusedStep ==
    /\ \A r \in DOMAIN requests, statusCode \in SegmentStatuses \ {200} :
          UpstreamResponse(r, statusCode) =>
              /\ segmentResponse'.status = 502
              /\ segmentResponse'.source = ""
              /\ segmentResponse'.ended
              /\ r \notin DOMAIN requests'
              /\ UNCHANGED <<segmentCache, currentCacheSize>>
    /\ \A statusCode \in ManifestStatuses \ {200}, location \in Locations :
          (ManifestResponse(statusCode, location, GatewayNonce)
             /\ ~Followed(statusCode, location)) =>
              /\ manifestRequest'.phase = "done"
              /\ manifestRequest'.status = 502
              /\ manifestRequest'.body = <<>>

\* C33: for segment and key fetches every non-2xx status of the origin, 3xx
\* included, yields 502 with nothing relayed and nothing cached; for manifest
\* fetches every non-2xx status other than a 3xx with a Location yields 502.
C33_Non2xxRefused == []C33_KeyRefused /\ [][C33_RefusedStep]_vars

\* C33 witness: the origin answered a key request with a redirect, and the
\* client was answered 502
C33_Witness ==
    /\ keyRequest # NoKeyRequest
    /\ keyRequest.upstream = 302
    /\ keyRequest.status = 502

----------------------------------------------------------------------------
(* Claims about the registry and the proxy endpoints (under AccessSpec)    *)

\* the state of the three proxy endpoints
ProxyView ==
    <<segmentCache, currentCacheSize, requests, segmentResponse, manifestRequest,
      keyRequest>>

\* the status codes a proxy response carries, 0 for none
ResponseStatuses == {0, 200, 500, 502, 504}

\* the outcomes of a step of the segment proxy: the status of the response
\* it leaves, and whether the requests in flight are as before
SegmentOutcomes == ResponseStatuses \X BOOLEAN

\* the outcomes of a step of the manifest or key proxy: where the request is,
\* and the status sent
RequestOutcomes == {"upstream", "relay", "done"} \X ResponseStatuses

\* no cached segment turns stale in this step
SameFreshness ==
    \A key \in GatewaySegments :
        CacheHit(segmentCache, key, now) = CacheHit(segmentCache, key, now')

\* C40, for the segment endpoint: a request or upstream event has the same
\* possible outcomes before and after the step
C40_SegmentSame ==
    /\ \A key \in GatewaySegments, o \in SegmentOutcomes :
          (ENABLED (/\ ProxySegment(key)
                    /\ segmentResponse'.status = o[1]
                    /\ (requests' = requests) = o[2])) =
          (ENABLED (/\ ProxySegment(key)
                    /\ segmentResponse'.status = o[1]
                    /\ (requests' = requests) = o[2]))'
    /\ \A r \in DOMAIN requests, o \in SegmentOutcomes :
          /\ \A statusCode \in SegmentStatuses :
                (ENABLED (/\ UpstreamResponse(r, statusCode)
                          /\ segmentResponse'.status = o[1]
                          /\ (requests' = requests) = o[2])) =
                (ENABLED (/\ UpstreamResponse(r, statusCode)
                          /\ segmentResponse'.status = o[1]
                          /\ (requests' = requests) = o[2]))'
          /\ (ENABLED (/\ UpstreamData(r, 1) \/ UpstreamEnd(r) \/ SegmentError(r)
                          \/ SegmentTimeout(r)
                       /\ segmentResponse'.status = o[1]
                       /\ (requests' = requests) = o[2])) =
             (ENABLED (/\ UpstreamData(r, 1) \/ UpstreamEnd(r) \/ SegmentError(r)
                          \/ SegmentTimeout(r)
                       /\ segmentResponse'.status = o[1]
                       /\ (requests' = requests) = o[2]))'

\* the upstream events of a manifest request that the comparison covers:
\* every status without a Location header, the end of an empty playlist, an
\* error and a timeout
ManifestEvent ==
    \/ \E statusCode \in ManifestStatuses : ManifestResponse(statusCode, <<>>, GatewayNonce)
    \/ ManifestEnd(<<>>, GatewayNonce)
    \/ ManifestError
    \/ ManifestTimeout

\* the upstream events of a key request
KeyEvent ==
    \/ \E statusCode \in KeyStatuses : KeyResponse(statusCode)
    \/ KeyEnd
    \/ KeyError
    \/ KeyTimeout

\* C40, for the manifest endpoint
C40_ManifestSame ==
    \A o \in RequestOutcomes :
        /\ \A in \in ManifestInputs :
              (ENABLED (/\ ProxyManifestDecrypted(in[1], in[2])
                        /\ manifestRequest'.phase = o[1]
                        /\ manifestRequest'.status = o[2])) =
              (ENABLED (/\ ProxyManifestDecrypted(in[1], in[2])
                        /\ manifestRequest'.phase = o[1]
                        /\ manifestRequest'.status = o[2]))'
        /\ (ENABLED (/\ ManifestEvent
                     /\ manifestRequest'.phase = o[1]
                     /\ manifestRequest'.status = o[2])) =
           (ENABLED (/\ ManifestEvent
                     /\ manifestRequest'.phase = o[1]
                     /\ manifestRequest'.status = o[2]))'

\* C40, for the key endpoint
C40_KeySame ==
    \A o \in RequestOutcomes :
        /\ \A in \in KeyInputs :
              (ENABLED (/\ ProxyKeyDecrypted(in[1], in[2])
                        /\ keyRequest'.phase = o[1]
                        /\ keyRequest'.status = o[2])) =
              (ENABLED (/\ ProxyKeyDecrypted(in[1], in[2])
                        /\ keyRequest'.phase = o[1]
                        /\ keyRequest'.status = o[2]))'
        /\ (ENABLED (/\ KeyEvent
                     /\ keyRequest'.phase = o[1]
                     /\ keyRequest'.status = o[2])) =
           (ENABLED (/\ KeyEvent
                     /\ keyRequest'.phase = o[1]
                     /\ keyRequest'.status = o[2]))'

\* C40: a step of the registry (a token issued, a stream stopped, expired by
\* the clock or reaped) leaves the possible outcomes of every request to
\* proxyManifest, proxySegment and proxyKey and of every upstream event as
\* they were, for the same ciphertext, origin behaviour and cache state; and
\* every step of a proxy leaves the registry as it was.
C40_RegistryBlind ==
    [][/\ (UNCHANGED ProxyView /\ regVars' # regVars) =>
              /\ SameFreshness => C40_SegmentSame
              /\ C40_ManifestSame
              /\ C40_KeySame
       /\ ProxyView' # ProxyView =>
              UNCHANGED <<activeStreams, viewerSessions, tokens, stoppedJtis>>]_vars

\* C40 witness: the stream was stopped and reaped, and the segment proxy has
\* served a segment from its cache
C40_Witness ==
    /\ stoppedJtis # {}
    /\ "s1" \notin DOMAIN activeStreams
    /\ segmentResponse # NoSegmentResponse
    /\ segmentResponse.source = "cache"

====
